---- MODULE Spec2Model ----
(***************************************************************************)
(* The task subsystem of the os5 kernel (process lifecycle, the stride     *)
(* ready queue, the idle loop) together with the anonymous mmap and munmap *)
(* of os4 and os5.                                                         *)
(*                                                                         *)
(* A state is the kernel observed between two kernel operations: either a  *)
(* task is in the current slot and runs in user mode, or the idle loop of  *)
(* run_tasks is about to fetch.  One action is one whole trap: a system    *)
(* call, a timer interrupt, or one iteration of the idle loop.             *)
(*                                                                         *)
(* Arithmetic on pass is the wrapping arithmetic of a build without        *)
(* overflow checks: with overflow checks the subtraction in fetch panics   *)
(* on the first pair whose predecessor has the smaller pass.  The width    *)
(* of pass and BIG_STRIDE are scaled down together (TLC integers are 32    *)
(* bits wide); PassBits stands for the 64 of u64.                          *)
(*                                                                         *)
(* Specifications:                                                         *)
(*   Spec        fork, spawn, exec, yield, timer, exit and waitpid at the  *)
(*               default priority;                                         *)
(*   SpecSched   two tasks that set their priority;                        *)
(*   SpecStride  two tasks under timer preemption over a long run, with    *)
(*               the dispatches of the current window counted in disp;     *)
(*   SpecFetch   one dispatch from every ready queue of sampled passes;    *)
(*   SpecMm      mmap and munmap in os5 (INITPROC, which may fork) and in  *)
(*               os4 (the first application), the last call kept in        *)
(*               last_call;                                                *)
(*   SpecTrap    the lifecycle with sepc and kernel_sp of the trap context *)
(*               of every task;                                            *)
(*   SpecInfo    system calls through `syscall` with the counters, the     *)
(*               clock in microseconds and sys_task_info, in os5 and os4.  *)
(*   SpecQueue   the idle loop over every ready queue, the empty one       *)
(*               included, with the timer re-enqueueing;                   *)
(*   SpecPort    mmap with every port from 0 to 8, in os5 and os4;         *)
(*   SpecNew     fork and spawn by tasks that changed their priority;      *)
(*   SpecTime    sys_get_time while the clock passes a second;             *)
(*   SpecPaths   the os5 lifecycle with the borrows, drops and switches    *)
(*               of every kernel path in kernel_ops;                       *)
(*   SpecEntry   trap entry and return of os3 and os4: scause, stvec, the  *)
(*               privilege mode and the kernel stack of every task;        *)
(*   SpecSwitch  SpecPaths and SpecEntry together, any kernel booted;      *)
(*   SpecApps    the task list of os3 and os4 with NumApps applications    *)
(*               that yield, exit, are preempted or fault, and             *)
(*               SpecAppsFair, the same with a hart that trapped going     *)
(*               through trap_handler;                                     *)
(*   SpecStarve  tasks of os5 that run without end, with the idle loop     *)
(*               going round and the timer interrupt coming.               *)
(*                                                                         *)
(* The user pointers of waitpid and task_info are taken to be mapped and   *)
(* writable.  The                                                          *)
(* address space is the list of its areas as the kernel documentation      *)
(* describes MemorySet; page tables and frames are not represented.        *)
(***************************************************************************)
EXTENDS Integers, Sequences, FiniteSets, TLC

(* ------------------------------ bounds -------------------------------- *)

\* TCBs that can be allocated at once (the kernel heap).
MaxTasks == 3

\* Last clock reading at which the idle loop still dispatches.
MaxTime == 5

\* Width of pass in the model (u64 in the source).
PassBits == 6

\* Last clock reading of a dispatch, and the tasks, of the fairness runs.
MaxStrideTime == 10
MaxStrideTasks == 2
MaxTrapTime == 4
MaxTrapTasks == 2

\* Last millisecond of the clock, system calls of one task and width of
\* usize in the runs with sys_task_info.
MaxInfoMs == 2
MaxCalls == 2
UsizeBits == 16

\* Microseconds the clock runs in the runs with sys_get_time.
MaxTicks == 4

\* Applications of os3 and os4 in the runs that follow their task list.
NumApps == 3

(* ----------------------------- constants ------------------------------ *)

\* crate::config::BIG_STRIDE, scaled with PassBits.
BIG_STRIDE == 16

PassMod == 2 ^ PassBits

\* crate::config::PAGE_SIZE
PAGE_SIZE == 4096

\* crate::config::KERNEL_STACK_SIZE
KERNEL_STACK_SIZE == 2 * PAGE_SIZE

\* The entry point MemorySet::from_elf reads from the header of an
\* application.
entry_point == 0

\* User addresses of the ecall instructions of the applications.
EcallSites == {0, 8}

\* The microseconds of a second (the 1_000_000 of sys_get_time).
SecondUs == 1000000

\* syscall ids
SYSCALL_EXIT == 93
SYSCALL_YIELD == 124
SYSCALL_SET_PRIORITY == 140
SYSCALL_GET_TIME == 169
SYSCALL_MUNMAP == 215
SYSCALL_FORK == 220
SYSCALL_EXEC == 221
SYSCALL_MMAP == 222
SYSCALL_WAITPID == 260
SYSCALL_SPAWN == 400
SYSCALL_TASK_INFO == 410

\* crate::config::MAX_SYSCALL_NUM
MAX_SYSCALL_NUM == 500

\* Ids the dispatcher has no arm for, below and above the bound of the
\* counting hook.
UnsupportedIds == {1, 500}

\* The ids below MAX_SYSCALL_NUM a modelled call can have.
CountedIds ==
    {SYSCALL_EXIT, SYSCALL_YIELD, SYSCALL_FORK, SYSCALL_EXEC, SYSCALL_WAITPID,
     SYSCALL_SPAWN, SYSCALL_TASK_INFO, SYSCALL_SET_PRIORITY} \cup {id \in UnsupportedIds : id < MAX_SYSCALL_NUM}

Slots == 1 .. MaxTasks

\* Option::None for a slot, and a Weak whose target was dropped.
None == 0
Dangling == -1

\* The TCB behind the INITPROC static.
INITPROC == 1

\* Arguments user programs pass.
ExitCodes == {0, 7}
PrioArgs == {-1, 1, 2, 3, 8}
StridePrioArgs == {2, 8}
WaitArgs == {-2, -1, 0, 1, 2, 3}

\* Where the program image is loaded, and the first address user programs
\* ask mmap for (0x10000 and 0x10000000).
ElfVa == 16 * PAGE_SIZE
MmBase == 65536 * PAGE_SIZE

\* Arguments of mmap and munmap: aligned and misaligned starts and, for
\* mmap, a page of the image; lengths of no page, one page and two pages;
\* ports with no permission, R|W, a reserved bit alone and with R.
MunmapStarts == {MmBase, MmBase + 1, MmBase + PAGE_SIZE}
MmapStarts == MunmapStarts \cup {ElfVa}
MmapLens == {0, 1, PAGE_SIZE + 1}
MmapPorts == {0, 3, 8, 9}

\* Values of pass next to 0, to BIG_STRIDE / 2, to BIG_STRIDE and to the
\* wrap of the counter.
PassSamples ==
    {0, 1, 2, BIG_STRIDE \div 2, BIG_STRIDE \div 2 + 1, BIG_STRIDE,
     PassMod - BIG_STRIDE \div 2, PassMod - 2, PassMod - 1}

\* The kernel runs.
NoPanic == "running"

\* The i32 at exit_code_ptr before the kernel writes it.
Unwritten == -99

\* Kernel-stack continuation of a suspended task: which handler it sits in.
NoFrame == [kind |-> "none", ret |-> 0]

(* ------------------------------- state -------------------------------- *)

VARIABLES
    tcb,            \* slot -> TaskControlBlock (pid, inner)
    live,           \* slots holding a TCB that has not been dropped
    ready_queue,    \* TASK_MANAGER.ready_queue
    current,        \* PROCESSOR.current
    time,           \* get_time_us()
    pid_current,    \* PID_ALLOCATOR.current
    pid_recycled,   \* PID_ALLOCATOR.recycled
    panicked,       \* the panic that halted the kernel, if any
    disp,           \* slot -> dispatches since the observation window opened
    last_call,      \* x[17] and the arguments of the last trap, if it was mmap or munmap
    kernel,         \* which kernel image was booted: "os4" or "os5"
    tasks,          \* os4: TASK_MANAGER.inner.tasks
    current_task,   \* os4: TASK_MANAGER.inner.current_task
    trap_cx,        \* slot -> sepc and kernel_sp of the TrapContext in the page
                    \* trap_cx_ppn names (x[10] is kept in tcb[slot].x10)
    syscall_times,  \* slot (os4: index of tasks) -> inner.syscall_times
    task_info,      \* the TaskInfo sys_task_info wrote last, and for whom
    first_dispatch, \* slot (os4: index) -> get_time_us() at the first dispatch
    time_val,       \* slot -> the TimeVal at the pointer the task gives sys_get_time
    kernel_ops,     \* what the kernel did in the last step, up to its __switch:
                    \* borrows and drops of UPSafeCells, set_next_trigger
    scause,         \* os3, os4: the cause of the trap being handled
    stvec,          \* os3, os4: the trap vector
    mode,           \* os3, os4: the privilege mode of the hart
    kstack,         \* os3, os4: index -> where the task goes on after __switch
    uregs           \* os3, os4: index -> x[17], x[11], x[12] of the TrapContext

vars == <<tcb, live, ready_queue, current, time, pid_current, pid_recycled, panicked,
          disp, last_call, kernel, tasks, current_task, trap_cx,
          syscall_times, task_info, first_dispatch,
          time_val, kernel_ops, scause, stvec, mode, kstack, uregs>>

\* What sys_task_info reports from, and its report.
infovars == <<syscall_times, task_info, first_dispatch>>

\* The trap entry and return of os3 and os4.
entryvars == <<scause, stvec, mode, kstack, uregs>>

\* What only the specifications of sys_get_time, of the context switches
\* and of the trap entry follow.
pathvars == <<time_val, kernel_ops, entryvars>>

\* The state of the other kernel image, which an os5 trap never touches.
os4vars == <<kernel, tasks, current_task>>

\* A slot that holds no TCB.
FreeTCB ==
    [pid |-> -1, task_status |-> "UnInit", parent |-> None, children |-> <<>>,
     exit_code |-> 0, task_first_time |-> 0, stride |-> 0, pass |-> 0,
     memory_set |-> <<>>, x10 |-> 0, wbuf |-> Unwritten, kframe |-> NoFrame]

(* ------------------------------ helpers ------------------------------- *)

RECURSIVE SeqCount(_, _)
SeqCount(s, x) ==
    IF s = <<>> THEN 0
    ELSE (IF Head(s) = x THEN 1 ELSE 0) + SeqCount(Tail(s), x)

RECURSIVE SumOver(_, _)
SumOver(S, f) ==
    IF S = {} THEN 0
    ELSE LET x == CHOOSE y \in S : TRUE IN f[x] + SumOver(S \ {x}, f)

\* Vec::remove / VecDeque::remove at a 1-based index.
RemoveAt(s, i) == SubSeq(s, 1, i - 1) \o SubSeq(s, i + 1, Len(s))

\* Arc::strong_count: ready queue entries, the current slot, children
\* entries, the INITPROC static, and the clone sys_spawn keeps on the
\* kernel stack of a task suspended inside it.
StrongCount(t) ==
    SeqCount(ready_queue, t)
    + (IF current = t THEN 1 ELSE 0)
    + SumOver(live, [p \in Slots |-> SeqCount(tcb[p].children, t)])
    + (IF t = INITPROC THEN 1 ELSE 0)
    + (IF tcb[t].kframe.kind = "spawn" THEN 1 ELSE 0)

(* --------------------------- pid allocator ---------------------------- *)

\* pid_alloc: the most recently recycled pid, else a fresh one.
PidAllocPid == IF pid_recycled # <<>> THEN pid_recycled[Len(pid_recycled)] ELSE pid_current

\* Mutant: a fresh pid is handed out without advancing `current`.
PidAllocCurrent_Stuck == pid_current

PidAllocCurrent == IF pid_recycled # <<>> THEN pid_current ELSE pid_current + 1

PidAllocRecycled ==
    IF pid_recycled # <<>> THEN SubSeq(pid_recycled, 1, Len(pid_recycled) - 1) ELSE pid_recycled

(* --------------------------- address space ---------------------------- *)

\* A MemorySet is the sequence of its framed areas [start, end) in virtual
\* page numbers, each with its MapPermission.

\* VirtAddr::aligned, VirtAddr::floor, VirtAddr::ceil
aligned(va) == va % PAGE_SIZE = 0
floor(va) == va \div PAGE_SIZE
ceil(va) == (va + PAGE_SIZE - 1) \div PAGE_SIZE

\* The virtual pages the areas of a MemorySet map.
MappedVpns(ms) == UNION {ms[i].start .. ms[i].end - 1 : i \in 1 .. Len(ms)}

\* MemorySet::from_elf: the areas of a freshly loaded program (one page of
\* the image stands for its segments, stack and trap context).
from_elf == <<[start |-> floor(ElfVa), end |-> floor(ElfVa) + 1, perm |-> {"U", "R", "X"}]>>

\* MemorySet::insert_framed_area: the result and the MemorySet afterwards.
insert_framed_area(ms, start_va, end_va, permission) ==
    LET start_vpn == floor(start_va)
        end_vpn == ceil(end_va)
        fails == \/ ~aligned(start_va)
                 \/ end_vpn <= start_vpn
                 \/ (start_vpn .. end_vpn - 1) \cap MappedVpns(ms) # {}
                 \/ permission \cap {"R", "W", "X"} = {}
    IN IF fails THEN [ret |-> -1, memory_set |-> ms]
       ELSE [ret |-> 0,
             memory_set |-> Append(ms, [start |-> start_vpn, end |-> end_vpn,
                                        perm |-> permission])]

\* What is left of one area once the pages [s, e) are unmapped.
AreaWithout(a, s, e) ==
    (IF a.start < s /\ a.start < a.end
     THEN <<[a EXCEPT !.end = IF a.end < s THEN a.end ELSE s]>> ELSE <<>>)
    \o (IF e < a.end
        THEN <<[a EXCEPT !.start = IF a.start > e THEN a.start ELSE e]>> ELSE <<>>)

RECURSIVE AreasWithout(_, _, _)
AreasWithout(ms, s, e) ==
    IF ms = <<>> THEN <<>>
    ELSE AreaWithout(Head(ms), s, e) \o AreasWithout(Tail(ms), s, e)

\* MemorySet::remove_frame_area (delete_frame_area in os4).
remove_frame_area(ms, start_va, end_va) ==
    LET start_vpn == floor(start_va)
        end_vpn == ceil(end_va)
        fails == \/ ~aligned(start_va)
                 \/ ~((start_vpn .. end_vpn - 1) \subseteq MappedVpns(ms))
    IN IF fails THEN [ret |-> -1, memory_set |-> ms]
       ELSE IF end_vpn <= start_vpn THEN [ret |-> 0, memory_set |-> ms]
       ELSE [ret |-> 0, memory_set |-> AreasWithout(ms, start_vpn, end_vpn)]

(* ------------------------------ creation ------------------------------ *)

\* TaskControlBlock::new: the inner block of a task made from an ELF image.
NewTCB(pid, parent) ==
    [pid |-> pid, task_status |-> "Ready", parent |-> parent, children |-> <<>>,
     exit_code |-> 0, task_first_time |-> 0, stride |-> BIG_STRIDE \div 16, pass |-> 0,
     memory_set |-> from_elf, x10 |-> 0, wbuf |-> Unwritten, kframe |-> NoFrame]

(* ----------------------------- scheduler ------------------------------ *)

\* Wrapping u64 subtraction, then `as i128` (never negative).
PassDelta(pre, cur) == (pre - cur) % PassMod

\* The scan of TaskManager::fetch from 1-based position idx on; returns min_idx.
RECURSIVE FetchScan(_, _, _, _, _)
FetchScan(q, t, idx, min_idx, min_pass) ==
    IF idx > Len(q) THEN min_idx
    ELSE IF idx = 1 THEN FetchScan(q, t, 2, 1, t[q[1]].pass)
    ELSE LET pass_delta == PassDelta(t[q[idx - 1]].pass, t[q[idx]].pass)
             take == /\ pass_delta > 0
                     /\ pass_delta <= BIG_STRIDE \div 2
                     /\ t[q[idx]].pass < min_pass
         IN IF take THEN FetchScan(q, t, idx + 1, idx, t[q[idx]].pass)
            ELSE FetchScan(q, t, idx + 1, min_idx, min_pass)

\* Mutant: `pop_back` in place of the scan.
FetchIdx_Back(q, t) == Len(q)

\* 1-based position fetch removes (0: the queue is empty and fetch is None).
FetchIdx(q, t) == IF q = <<>> THEN 0 ELSE FetchScan(q, t, 1, 1, 0)

\* Mutant: the time of every dispatch is recorded.
Dispatched_AlwaysStamps(task, now) ==
    LET i1 == [tcb[task] EXCEPT !.task_status = "Running"]
        i2 == [i1 EXCEPT !.task_first_time = now]
        i3 == [i2 EXCEPT !.pass = (i2.pass + i2.stride) % PassMod]
    IN IF i3.kframe.kind \in {"yield", "spawn"}
       THEN [i3 EXCEPT !.x10 = i3.kframe.ret, !.kframe = NoFrame]
       ELSE [i3 EXCEPT !.kframe = NoFrame]

\* Mutant: run_tasks without `task_inner.task_status = TaskStatus::Running`.
Dispatched_StaysReady(task, now) ==
    LET i1 == tcb[task]
        i2 == IF i1.task_first_time = 0 THEN [i1 EXCEPT !.task_first_time = now] ELSE i1
        i3 == [i2 EXCEPT !.pass = (i2.pass + i2.stride) % PassMod]
    IN IF i3.kframe.kind \in {"yield", "spawn"}
       THEN [i3 EXCEPT !.x10 = i3.kframe.ret, !.kframe = NoFrame]
       ELSE [i3 EXCEPT !.kframe = NoFrame]

\* One iteration of run_tasks that finds a task.
Dispatched(task, now) ==
    LET i1 == [tcb[task] EXCEPT !.task_status = "Running"]
        i2 == IF i1.task_first_time = 0 THEN [i1 EXCEPT !.task_first_time = now] ELSE i1
        i3 == [i2 EXCEPT !.pass = (i2.pass + i2.stride) % PassMod]
    IN \* back on its kernel stack the task finishes the system call it was
       \* suspended in: trap_handler stores the result in x[10].
       IF i3.kframe.kind \in {"yield", "spawn"}
       THEN [i3 EXCEPT !.x10 = i3.kframe.ret, !.kframe = NoFrame]
       ELSE [i3 EXCEPT !.kframe = NoFrame]

RunTasks(limit) ==
    /\ panicked = NoPanic
    /\ current = None
    /\ ready_queue # <<>>
    /\ time < limit
    /\ LET idx == FetchIdx(ready_queue, tcb)
           task == ready_queue[idx]
       IN /\ time' = time + 1
          /\ ready_queue' = RemoveAt(ready_queue, idx)
          /\ tcb' = [tcb EXCEPT ![task] = Dispatched(task, time + 1)]
          /\ current' = task
    /\ UNCHANGED <<live, pid_current, pid_recycled, panicked, os4vars>>

\* One iteration of run_tasks that finds a task, in a run that goes on
\* behind the last clock reading that is followed: the readings from
\* `limit` on are all taken as `limit`.
RunTasksLate(limit) ==
    /\ panicked = NoPanic
    /\ current = None
    /\ ready_queue # <<>>
    /\ time >= limit
    /\ LET idx == FetchIdx(ready_queue, tcb)
           task == ready_queue[idx]
       IN /\ ready_queue' = RemoveAt(ready_queue, idx)
          /\ tcb' = [tcb EXCEPT ![task] = Dispatched(task, time)]
          /\ current' = task
    /\ UNCHANGED <<time, live, pid_current, pid_recycled, panicked, os4vars>>

(* ------------------------------ suspend ------------------------------- *)

\* Mutant: the task is re-enqueued without take_current_task.
Suspend_KeepsCurrent(t, kind, ret) ==
    /\ tcb' = [t EXCEPT ![current] = [@ EXCEPT !.task_status = "Ready",
                                               !.kframe = [kind |-> kind, ret |-> ret]]]
    /\ ready_queue' = Append(ready_queue, current)
    /\ current' = current

\* suspend_current_and_run_next, entered from the handler `kind` whose
\* result `ret` stays on the kernel stack until the task runs again.
Suspend(t, kind, ret) ==
    /\ tcb' = [t EXCEPT ![current] = [@ EXCEPT !.task_status = "Ready",
                                               !.kframe = [kind |-> kind, ret |-> ret]]]
    /\ ready_queue' = Append(ready_queue, current)
    /\ current' = None

SysYield ==
    /\ panicked = NoPanic
    /\ current # None
    /\ Suspend(tcb, "yield", 0)
    /\ UNCHANGED <<live, time, pid_current, pid_recycled, panicked, os4vars>>

TimerTrap ==
    /\ panicked = NoPanic
    /\ current # None
    /\ Suspend(tcb, "timer", 0)
    /\ UNCHANGED <<live, time, pid_current, pid_recycled, panicked, os4vars>>

(* -------------------------------- fork -------------------------------- *)

\* The heap address of the next Arc<TaskControlBlock>.
FreeSlot == CHOOSE s \in Slots \ live : \A r \in Slots \ live : s <= r

\* Mutant: the child takes over the stride and the pass of its parent.
ForkedTCB_Inherits(pid, parent) ==
    [NewTCB(pid, parent) EXCEPT !.memory_set = tcb[parent].memory_set,
                                !.x10 = 0, !.wbuf = tcb[parent].wbuf,
                                !.stride = tcb[parent].stride,
                                !.pass = tcb[parent].pass]

\* TaskControlBlock::fork followed by the x[10] = 0 of sys_fork: the child's
\* address space (trap context included) is a copy of the parent's.
ForkedTCB(pid, parent) ==
    [NewTCB(pid, parent) EXCEPT !.memory_set = tcb[parent].memory_set,
                                !.x10 = 0, !.wbuf = tcb[parent].wbuf]

SysFork ==
    /\ panicked = NoPanic
    /\ current # None
    /\ live # Slots
    /\ LET new_task == FreeSlot
           new_pid == PidAllocPid
       IN /\ tcb' = [tcb EXCEPT ![new_task] = ForkedTCB(new_pid, current),
                                ![current] = [@ EXCEPT !.children = Append(@, new_task),
                                                       !.x10 = new_pid]]
          /\ live' = live \cup {new_task}
          /\ ready_queue' = Append(ready_queue, new_task)
    /\ pid_current' = PidAllocCurrent
    /\ pid_recycled' = PidAllocRecycled
    /\ UNCHANGED <<current, time, panicked, os4vars>>

(* ------------------------------- spawn -------------------------------- *)

\* sys_spawn with a name get_app_data_by_name does not know.
SysSpawnUnknown ==
    /\ panicked = NoPanic
    /\ current # None
    /\ tcb' = [tcb EXCEPT ![current] = [@ EXCEPT !.x10 = -1]]
    /\ UNCHANGED <<live, ready_queue, current, time, pid_current, pid_recycled, panicked, os4vars>>

\* Mutant: the caller is suspended before add_task(new_task).
SysSpawn_SuspendsFirst ==
    /\ panicked = NoPanic
    /\ current # None
    /\ live # Slots
    /\ LET new_task == FreeSlot
           new_pid == PidAllocPid
           linked == [tcb EXCEPT ![new_task] = NewTCB(new_pid, current),
                                 ![current] = [@ EXCEPT !.children = Append(@, new_task)]]
       IN /\ tcb' = [linked EXCEPT ![current] =
                        [@ EXCEPT !.task_status = "Ready",
                                  !.kframe = [kind |-> "spawn", ret |-> new_pid]]]
          /\ live' = live \cup {new_task}
          /\ ready_queue' = Append(Append(ready_queue, current), new_task)
          /\ current' = None
    /\ pid_current' = PidAllocCurrent
    /\ pid_recycled' = PidAllocRecycled
    /\ UNCHANGED <<time, panicked, os4vars>>

\* sys_spawn with a known name: TaskControlBlock::spawn, add_task, then
\* suspend_current_and_run_next with new_pid still to be returned.
SysSpawn ==
    /\ panicked = NoPanic
    /\ current # None
    /\ live # Slots
    /\ LET new_task == FreeSlot
           new_pid == PidAllocPid
           linked == [tcb EXCEPT ![new_task] = NewTCB(new_pid, current),
                                 ![current] = [@ EXCEPT !.children = Append(@, new_task)]]
       IN /\ tcb' = [linked EXCEPT ![current] =
                        [@ EXCEPT !.task_status = "Ready",
                                  !.kframe = [kind |-> "spawn", ret |-> new_pid]]]
          /\ live' = live \cup {new_task}
          /\ ready_queue' = Append(Append(ready_queue, new_task), current)
          /\ current' = None
    /\ pid_current' = PidAllocCurrent
    /\ pid_recycled' = PidAllocRecycled
    /\ UNCHANGED <<time, panicked, os4vars>>

(* -------------------------------- exec -------------------------------- *)

\* sys_exec with a name get_app_data_by_name does not know.
SysExecUnknown ==
    /\ panicked = NoPanic
    /\ current # None
    /\ tcb' = [tcb EXCEPT ![current] = [@ EXCEPT !.x10 = -1]]
    /\ UNCHANGED <<live, ready_queue, current, time, pid_current, pid_recycled, panicked, os4vars>>

\* Mutant: exec also starts the scheduling attributes afresh.
exec_ResetsPass(task) ==
    [task EXCEPT !.memory_set = from_elf, !.wbuf = Unwritten, !.pass = 0]

\* TaskControlBlock::exec: a new address space, whose user memory nothing
\* was written to yet, in place of the old one.
exec(task) ==
    [task EXCEPT !.memory_set = from_elf, !.wbuf = Unwritten]

\* sys_exec with a known name; the 0 it returns is x[10] of the new trap
\* context.
SysExec ==
    /\ panicked = NoPanic
    /\ current # None
    /\ tcb' = [tcb EXCEPT ![current] = [exec(@) EXCEPT !.x10 = 0]]
    /\ UNCHANGED <<live, ready_queue, current, time, pid_current, pid_recycled, panicked, os4vars>>

(* -------------------------------- exit -------------------------------- *)

\* Mutant: the children handed to INITPROC keep their parent field.
Reparented_KeepsParent(t, task) ==
    [s \in Slots |->
        IF s = task THEN [t[s] EXCEPT !.children = <<>>]
        ELSE IF s = INITPROC
             THEN [t[s] EXCEPT !.children = @ \o t[task].children]
        ELSE t[s]]

\* Mutant: the children are handed to INITPROC without children.clear().
Reparented_NoClear(t, task) ==
    [s \in Slots |->
        IF s = INITPROC
        THEN [t[s] EXCEPT !.children = @ \o t[task].children]
        ELSE IF SeqCount(t[task].children, s) > 0
             THEN [t[s] EXCEPT !.parent = INITPROC]
        ELSE t[s]]

\* The loop of exit_current_and_run_next over the children of the exiting
\* task, then children.clear().
Reparented(t, task) ==
    [s \in Slots |->
        IF s = task THEN [t[s] EXCEPT !.children = <<>>]
        ELSE IF s = INITPROC
             THEN [t[s] EXCEPT !.children = @ \o t[task].children]
        ELSE IF SeqCount(t[task].children, s) > 0
             THEN [t[s] EXCEPT !.parent = INITPROC]
        ELSE t[s]]

\* Mutant: the exit code is not recorded.
Exited_NoCode(task, exit_code) ==
    Reparented([tcb EXCEPT ![task] = [@ EXCEPT !.task_status = "Zombie",
                                               !.memory_set = <<>>]], task)

\* exit_current_and_run_next for a task other than INITPROC.
Exited(task, exit_code) ==
    Reparented([tcb EXCEPT ![task] = [@ EXCEPT !.task_status = "Zombie",
                                               !.exit_code = exit_code,
                                               !.memory_set = <<>>]], task)

\* Owners a TCB keeps once it has left the current slot.
OwnersAfterExit(t, task) ==
    SeqCount(ready_queue, task)
    + SumOver(live, [p \in Slots |-> SeqCount(t[p].children, task)])
    + (IF task = INITPROC THEN 1 ELSE 0)

\* Drop of a TCB whose children list is empty: the slot and the pid are
\* released and every Weak to it stops upgrading.
Dropped(t, d) ==
    [s \in Slots |->
        IF s = d THEN FreeTCB
        ELSE IF t[s].parent = d THEN [t[s] EXCEPT !.parent = Dangling]
        ELSE t[s]]

SysExit(exit_code) ==
    /\ panicked = NoPanic
    /\ current # None
    /\ IF current = INITPROC
       THEN \* INITPROC.inner_exclusive_access() while task_inner borrows the
            \* same cell: the second borrow panics.
            /\ panicked' = "already borrowed"
            /\ UNCHANGED <<tcb, live, ready_queue, current, pid_recycled>>
       ELSE LET task == current
                after == Exited(task, exit_code)
            IN /\ current' = None
               /\ IF OwnersAfterExit(after, task) = 0
                  THEN /\ tcb' = Dropped(after, task)
                       /\ live' = live \ {task}
                       /\ pid_recycled' = Append(pid_recycled, tcb[task].pid)
                  ELSE /\ tcb' = after
                       /\ UNCHANGED <<live, pid_recycled>>
               /\ UNCHANGED <<ready_queue, panicked>>
    /\ UNCHANGED <<time, pid_current, os4vars>>

(* ------------------------------ waitpid ------------------------------- *)

\* Mutant: -1 is compared like any other pid.
WaitMatches_NoAny(pid, p) == pid >= 0 /\ pid = tcb[p].pid

\* `pid == -1 || pid as usize == p.getpid()`: a negative pid other than -1
\* casts to a usize no PidHandle holds.
WaitMatches(pid, p) == pid = -1 \/ (pid >= 0 /\ pid = tcb[p].pid)

\* Mutant: the last matching Zombie child is taken.
WaitFind_Last(children, pid) ==
    LET hits == {i \in 1 .. Len(children) :
                    /\ tcb[children[i]].task_status = "Zombie"
                    /\ (pid = -1 \/ (pid >= 0 /\ pid = tcb[children[i]].pid))}
    IN IF hits = {} THEN 0 ELSE CHOOSE i \in hits : \A j \in hits : i >= j

\* 1-based position of the first matching Zombie child (0: none).
WaitFind(children, pid) ==
    LET hits == {i \in 1 .. Len(children) :
                    /\ tcb[children[i]].task_status = "Zombie"
                    /\ WaitMatches(pid, children[i])}
    IN IF hits = {} THEN 0 ELSE CHOOSE i \in hits : \A j \in hits : i <= j

SysWaitpid(pid) ==
    /\ panicked = NoPanic
    /\ current # None
    /\ LET task == current
           children == tcb[task].children
           idx == WaitFind(children, pid)
       IN IF ~ \E i \in 1 .. Len(children) : WaitMatches(pid, children[i])
          THEN /\ tcb' = [tcb EXCEPT ![task] = [@ EXCEPT !.x10 = -1]]
               /\ UNCHANGED <<live, pid_recycled, panicked>>
          ELSE IF idx = 0
          THEN /\ tcb' = [tcb EXCEPT ![task] = [@ EXCEPT !.x10 = -2]]
               /\ UNCHANGED <<live, pid_recycled, panicked>>
          ELSE LET child == children[idx]
               IN IF StrongCount(child) # 1
                  THEN \* assert_eq!(Arc::strong_count(&child), 1)
                       /\ panicked' = "assertion failed"
                       /\ UNCHANGED <<tcb, live, pid_recycled>>
                  ELSE /\ tcb' = Dropped(
                                   [tcb EXCEPT ![task] =
                                       [@ EXCEPT !.children = RemoveAt(@, idx),
                                                 !.wbuf = tcb[child].exit_code,
                                                 !.x10 = tcb[child].pid]],
                                   child)
                       /\ live' = live \ {child}
                       /\ pid_recycled' = Append(pid_recycled, tcb[child].pid)
                       /\ UNCHANGED panicked
    /\ UNCHANGED <<ready_queue, current, time, pid_current, os4vars>>

(* ---------------------------- set_priority ---------------------------- *)

\* Mutant: the priority itself is stored as the stride.
set_priority_AsStride(t, task, prio) == [t EXCEPT ![task] = [@ EXCEPT !.stride = prio]]

\* task::set_priority
set_priority(t, task, prio) == [t EXCEPT ![task] = [@ EXCEPT !.stride = BIG_STRIDE \div prio]]

SysSetPriority(prio) ==
    /\ panicked = NoPanic
    /\ current # None
    /\ IF prio <= 1
       THEN tcb' = [tcb EXCEPT ![current] = [@ EXCEPT !.x10 = -1]]
       ELSE tcb' = [set_priority(tcb, current, prio) EXCEPT ![current] = [@ EXCEPT !.x10 = prio]]
    /\ UNCHANGED <<live, ready_queue, current, time, pid_current, pid_recycled, panicked, os4vars>>

(* --------------------------- mmap and munmap -------------------------- *)

\* Mutant: the bits of W and X change places.
PortPermission_XW(port) ==
    {"U"} \cup (IF port % 2 = 1 THEN {"R"} ELSE {})
          \cup (IF (port \div 2) % 2 = 1 THEN {"X"} ELSE {})
          \cup (IF (port \div 4) % 2 = 1 THEN {"W"} ELSE {})

\* MapPermission::U, then R, W, X for the bits 0x1, 0x2, 0x4 of port.
PortPermission(port) ==
    {"U"} \cup (IF port % 2 = 1 THEN {"R"} ELSE {})
          \cup (IF (port \div 2) % 2 = 1 THEN {"W"} ELSE {})
          \cup (IF (port \div 4) % 2 = 1 THEN {"X"} ELSE {})

\* Mutant: the port is not checked.
mmap_AnyPort(ms, start, len, port) ==
    IF ~aligned(start) THEN [ret |-> -1, memory_set |-> ms]
    ELSE insert_framed_area(ms, start, start + len, PortPermission(port))

\* task::mmap of os5 on the MemorySet of the current task (port is a usize:
\* `port & !0x7` is port / 8 * 8, `port & 0x7` is port % 8).
mmap(ms, start, len, port) ==
    IF ~aligned(start) THEN [ret |-> -1, memory_set |-> ms]
    ELSE IF port \div 8 # 0 \/ port % 8 = 0 THEN [ret |-> -1, memory_set |-> ms]
    ELSE insert_framed_area(ms, start, start + len, PortPermission(port))

\* Mutant: the length is passed where the end address belongs.
munmap_LenAsEnd(ms, start, len) ==
    IF ~aligned(start) THEN [ret |-> -1, memory_set |-> ms]
    ELSE remove_frame_area(ms, start, len)

\* task::munmap of os5.
munmap(ms, start, len) ==
    IF ~aligned(start) THEN [ret |-> -1, memory_set |-> ms]
    ELSE remove_frame_area(ms, start, start + len)

\* sys_mmap; trap_handler stores the result in x[10].
SysMmap(start, len, port) ==
    /\ panicked = NoPanic
    /\ current # None
    /\ LET r == mmap(tcb[current].memory_set, start, len, port)
       IN tcb' = [tcb EXCEPT ![current] = [@ EXCEPT !.memory_set = r.memory_set,
                                                    !.x10 = r.ret]]
    /\ UNCHANGED <<live, ready_queue, current, time, pid_current, pid_recycled, panicked, os4vars>>

\* sys_munmap
SysMunmap(start, len) ==
    /\ panicked = NoPanic
    /\ current # None
    /\ LET r == munmap(tcb[current].memory_set, start, len)
       IN tcb' = [tcb EXCEPT ![current] = [@ EXCEPT !.memory_set = r.memory_set,
                                                    !.x10 = r.ret]]
    /\ UNCHANGED <<live, ready_queue, current, time, pid_current, pid_recycled, panicked, os4vars>>

(* -------------------------------- os4 --------------------------------- *)

\* The os5 state, which an os4 trap never touches.
os5vars == <<tcb, live, ready_queue, current, time, pid_current, pid_recycled, panicked>>

\* os4 TaskControlBlock::new
Os4TCB ==
    [task_status |-> "Ready", memory_set |-> from_elf, task_first_time |-> 0, x10 |-> 0]

\* Mutant: the length is passed where the end address belongs.
TaskManager_mmap_LenAsEnd(ms, start, len, port) ==
    IF ~aligned(start) THEN [ret |-> -1, memory_set |-> ms]
    ELSE IF port \div 8 # 0 \/ port % 8 = 0 THEN [ret |-> -1, memory_set |-> ms]
    ELSE insert_framed_area(ms, start, len, PortPermission(port))

\* TaskManager::mmap of os4.
TaskManager_mmap(ms, start, len, port) ==
    IF ~aligned(start) THEN [ret |-> -1, memory_set |-> ms]
    ELSE IF port \div 8 # 0 \/ port % 8 = 0 THEN [ret |-> -1, memory_set |-> ms]
    ELSE insert_framed_area(ms, start, start + len, PortPermission(port))

\* Mutant: only the first page of the range is handed on.
TaskManager_mnumap_OnePage(ms, start, len) ==
    IF ~aligned(start) THEN [ret |-> -1, memory_set |-> ms]
    ELSE remove_frame_area(ms, start, start + 1)

\* TaskManager::mnumap of os4.
TaskManager_mnumap(ms, start, len) ==
    IF ~aligned(start) THEN [ret |-> -1, memory_set |-> ms]
    ELSE remove_frame_area(ms, start, start + len)

\* A task of os4 is in user mode (tasks is empty when os5 was booted;
\* current_task counts from 1 here and from 0 in the source).
Os4Running ==
    /\ current_task \in DOMAIN tasks
    /\ tasks[current_task].task_status = "Running"

\* os4 sys_mmap
Os4SysMmap(start, len, port) ==
    /\ Os4Running
    /\ LET r == TaskManager_mmap(tasks[current_task].memory_set, start, len, port)
       IN tasks' = [tasks EXCEPT ![current_task] = [@ EXCEPT !.memory_set = r.memory_set,
                                                             !.x10 = r.ret]]
    /\ UNCHANGED <<kernel, current_task, os5vars>>

\* os4 sys_munmap
Os4SysMunmap(start, len) ==
    /\ Os4Running
    /\ LET r == TaskManager_mnumap(tasks[current_task].memory_set, start, len)
       IN tasks' = [tasks EXCEPT ![current_task] = [@ EXCEPT !.memory_set = r.memory_set,
                                                             !.x10 = r.ret]]
    /\ UNCHANGED <<kernel, current_task, os5vars>>

(* ------------------------------- boot --------------------------------- *)

\* No dispatch observed yet.
NoDispatches == [s \in Slots |-> 0]

\* The last trap was neither mmap nor munmap.
NoCall == [id |-> 0, args |-> <<>>]

\* A step that is not observed.
Unobserved == UNCHANGED <<disp, last_call, trap_cx, infovars, pathvars>>

\* The system call `id` was entered with the arguments args.
Called(id, args) ==
    last_call' = [id |-> id, args |-> args] /\ UNCHANGED <<disp, trap_cx, infovars, pathvars>>

\* Another trap, or a dispatch.
CalledOther == last_call' = NoCall /\ UNCHANGED <<disp, trap_cx, infovars, pathvars>>

\* init_syscall_times: a counter of 0 for every id below MAX_SYSCALL_NUM
\* (those of the ids no modelled call has are left out).
NoTimes == [id \in CountedIds |-> 0]

\* sys_task_info has not written a TaskInfo.
NoInfo == [task |-> None, status |-> "UnInit", syscall_times |-> NoTimes, time |-> 0]

\* No system call was counted, nothing reported, no task dispatched.
NothingReported ==
    /\ syscall_times = [s \in Slots |-> NoTimes]
    /\ task_info = NoInfo
    /\ first_dispatch = [s \in Slots |-> 0]

\* The trap context page of a slot without address space.
NoTrapCx == [sepc |-> 0, kernel_sp |-> 0]

\* KernelStack::get_top, as an offset from TRAMPOLINE: the stacks of the
\* pids lie below one another, a guard page between them.
get_top(pid) == 0 - pid * (KERNEL_STACK_SIZE + PAGE_SIZE)

\* TrapContext::app_init_context: every register 0, sepc the entry point.
app_init_context(entry, kernel_sp) == [sepc |-> entry, kernel_sp |-> kernel_sp]

\* The TimeVal of a task that has not called sys_get_time.
NoTimeVal == [sec |-> Unwritten, usec |-> Unwritten]

\* No trap is being handled.
NoCause == "none"

\* The kernel stack of a task that is not suspended.
NoKFrame == [kind |-> "none", ret |-> 0, cx |-> None]

\* x[17], x[11] and x[12] as app_init_context leaves them.
NoRegs == [x17 |-> 0, x11 |-> 0, x12 |-> 0]

\* No sys_get_time was answered and no kernel path recorded.
NothingTraced ==
    /\ time_val = [s \in Slots |-> NoTimeVal]
    /\ kernel_ops = <<>>

\* The trap entry of os5 is not followed.
EntryNotFollowed ==
    /\ scause = NoCause
    /\ stvec = "not followed"
    /\ mode = "not followed"
    /\ kstack = [s \in Slots |-> NoKFrame]
    /\ uregs = [s \in Slots |-> NoRegs]

\* After add_initproc: INITPROC made by TaskControlBlock::new with the first
\* pid, alone in the ready queue.
BootOs5At(now) ==
    /\ tcb = [s \in Slots |-> IF s = INITPROC THEN NewTCB(0, None) ELSE FreeTCB]
    /\ live = {INITPROC}
    /\ ready_queue = <<INITPROC>>
    /\ current = None
    /\ time = now
    /\ pid_current = 1
    /\ pid_recycled = <<>>
    /\ panicked = NoPanic
    /\ disp = NoDispatches
    /\ last_call = NoCall
    /\ trap_cx = [s \in Slots |-> IF s = INITPROC
                                  THEN app_init_context(entry_point, get_top(0))
                                  ELSE NoTrapCx]
    /\ NothingReported
    /\ NothingTraced
    /\ EntryNotFollowed

BootOs5 == BootOs5At(1)

Init ==
    /\ BootOs5
    /\ kernel = "os5"
    /\ tasks = <<>>
    /\ current_task = 0

\* Process lifecycle under the default priority.
Next ==
    \/ RunTasks(MaxTime) /\ Unobserved
    \/ SysYield /\ Unobserved
    \/ TimerTrap /\ Unobserved
    \/ SysFork /\ Unobserved
    \/ SysSpawnUnknown /\ Unobserved
    \/ SysSpawn /\ Unobserved
    \/ SysExecUnknown /\ Unobserved
    \/ SysExec /\ Unobserved
    \/ \E exit_code \in ExitCodes : SysExit(exit_code) /\ Unobserved
    \/ \E pid \in WaitArgs : SysWaitpid(pid) /\ Unobserved

Spec == Init /\ [][Next]_vars

(* ----------------------------- scheduling ----------------------------- *)

\* The task the idle loop has just put in the current slot is counted.
CountDispatch == disp' = [disp EXCEPT ![current'] = @ + 1]

\* A change of the task set or of a priority opens a new window.
OpenWindow == disp' = NoDispatches

\* Two tasks of the default priority that set their own.
NextSched ==
    \/ RunTasks(MaxTime) /\ Unobserved
    \/ SysYield /\ Unobserved
    \/ TimerTrap /\ Unobserved
    \/ SysFork /\ Cardinality(live) < MaxStrideTasks /\ Unobserved
    \/ \E prio \in PrioArgs : SysSetPriority(prio) /\ Unobserved

SpecSched == Init /\ [][NextSched]_vars

\* Two tasks preempted by the timer over a long run, dispatches counted.
NextStride ==
    \/ RunTasks(MaxStrideTime) /\ CountDispatch
          /\ UNCHANGED <<last_call, trap_cx, infovars, pathvars>>
    \/ TimerTrap /\ Unobserved
    \/ SysFork /\ Cardinality(live) < MaxStrideTasks /\ OpenWindow
          /\ UNCHANGED <<last_call, trap_cx, infovars, pathvars>>
    \/ \E prio \in StridePrioArgs :
          SysSetPriority(prio) /\ OpenWindow
          /\ UNCHANGED <<last_call, trap_cx, infovars, pathvars>>

SpecStride == Init /\ [][NextStride]_vars

\* Priorities of the runs without end: one within BIG_STRIDE and one above
\* it.
StarvePrioArgs == {2, BIG_STRIDE + 1}

\* os5 with INITPROC in the ready queue, the clock at the last reading
\* that is followed.
InitStarve ==
    /\ BootOs5At(MaxTime)
    /\ kernel = "os5"
    /\ tasks = <<>>
    /\ current_task = 0

\* The idle loop of run_tasks.
IdleLoop == RunTasksLate(MaxTime) /\ Unobserved

\* The timer interrupt of a running task.
Preempt == TimerTrap /\ Unobserved

\* Tasks that run without end: dispatched, preempted or yielding, forking
\* and setting their priority.
NextStarve ==
    \/ IdleLoop
    \/ Preempt
    \/ SysYield /\ Unobserved
    \/ SysFork /\ Cardinality(live) < MaxStrideTasks /\ Unobserved
    \/ \E prio \in StarvePrioArgs : SysSetPriority(prio) /\ Unobserved

\* The idle loop goes round whenever no task runs, and the timer interrupt
\* comes to every task that stays running.
SpecStarve == InitStarve /\ [][NextStarve]_vars /\ WF_vars(IdleLoop) /\ WF_vars(Preempt)

(* -------------------------- fetch on its own -------------------------- *)

\* The orders in which n tasks can stand in the ready queue.
QueueOrders(n) ==
    {q \in [1 .. n -> 1 .. n] : \A i, j \in 1 .. n : q[i] = q[j] => i = j}

\* INITPROC and children it forked, all preempted by the timer after their
\* first dispatch, with the passes p.
QueuedTCB(s, n, p) ==
    [NewTCB(s - 1, IF s = INITPROC THEN None ELSE INITPROC) EXCEPT
        !.children = IF s = INITPROC THEN [i \in 1 .. n - 1 |-> i + 1] ELSE <<>>,
        !.task_first_time = 1,
        !.pass = p[s],
        !.kframe = [kind |-> "timer", ret |-> 0]]

\* Any ready queue of up to MaxTasks tasks, in any order, with any of the
\* sampled passes.
InitFetch ==
    \E n \in 1 .. MaxTasks :
        \E q \in QueueOrders(n), p \in [1 .. n -> PassSamples] :
            /\ tcb = [s \in Slots |-> IF s <= n THEN QueuedTCB(s, n, p) ELSE FreeTCB]
            /\ live = 1 .. n
            /\ ready_queue = q
            /\ current = None
            /\ time = 1
            /\ pid_current = n
            /\ pid_recycled = <<>>
            /\ panicked = NoPanic
            /\ disp = NoDispatches
            /\ last_call = NoCall
            /\ trap_cx = [s \in Slots |-> IF s <= n
                                          THEN app_init_context(entry_point, get_top(s - 1))
                                          ELSE NoTrapCx]
            /\ NothingReported
            /\ NothingTraced
            /\ EntryNotFollowed
            /\ kernel = "os5"
            /\ tasks = <<>>
            /\ current_task = 0

NextFetch == RunTasks(MaxTime) /\ Unobserved

SpecFetch == InitFetch /\ [][NextFetch]_vars

(* ----------------------- the queue, empty or not ---------------------- *)

\* One iteration of run_tasks for which fetch_task is None: `remove` of a
\* VecDeque without entries removes nothing, and the loop comes round.
RunTasksIdle(limit) ==
    /\ panicked = NoPanic
    /\ current = None
    /\ time < limit
    /\ FetchIdx(ready_queue, tcb) = 0
    /\ time' = time + 1
    /\ ready_queue' = RemoveAt(ready_queue, FetchIdx(ready_queue, tcb))
    /\ current' = None
    /\ UNCHANGED <<tcb, live, pid_current, pid_recycled, panicked, os4vars>>

\* TASK_MANAGER before add_initproc.
InitQueueEmpty ==
    /\ tcb = [s \in Slots |-> FreeTCB]
    /\ live = {}
    /\ ready_queue = <<>>
    /\ current = None
    /\ time = 1
    /\ pid_current = 0
    /\ pid_recycled = <<>>
    /\ panicked = NoPanic
    /\ disp = NoDispatches
    /\ last_call = NoCall
    /\ trap_cx = [s \in Slots |-> NoTrapCx]
    /\ NothingReported
    /\ NothingTraced
    /\ EntryNotFollowed
    /\ kernel = "os5"
    /\ tasks = <<>>
    /\ current_task = 0

InitQueue == InitFetch \/ InitQueueEmpty

\* The idle loop over any ready queue, the empty one included, and the
\* timer that puts the running task back at the tail.
NextQueue ==
    \/ RunTasks(MaxTime) /\ Unobserved
    \/ RunTasksIdle(MaxTime) /\ Unobserved
    \/ TimerTrap /\ Unobserved

SpecQueue == InitQueue /\ [][NextQueue]_vars

(* --------------------------- address spaces --------------------------- *)

\* os4 after run_first_task: two applications loaded, the first Running.
BootOs4At(now) ==
    /\ tasks = <<[Os4TCB EXCEPT !.task_status = "Running",
                                !.task_first_time = now \div 1000], Os4TCB>>
    /\ current_task = 1
    /\ tcb = [s \in Slots |-> FreeTCB]
    /\ live = {}
    /\ ready_queue = <<>>
    /\ current = None
    /\ time = now
    /\ pid_current = 0
    /\ pid_recycled = <<>>
    /\ panicked = NoPanic
    /\ disp = NoDispatches
    /\ last_call = NoCall
    /\ trap_cx = [s \in Slots |-> NoTrapCx]
    /\ syscall_times = [s \in Slots |-> NoTimes]
    /\ task_info = NoInfo
    /\ first_dispatch = [s \in Slots |-> IF s = 1 THEN now ELSE 0]
    /\ NothingTraced
    /\ EntryNotFollowed

BootOs4 == BootOs4At(1)

\* Either kernel image is booted.
InitMm ==
    \/ Init
    \/ kernel = "os4" /\ BootOs4

\* INITPROC, which forks one child, or the first application of os4 maps
\* and unmaps pages.
NextMm ==
    \/ RunTasks(MaxTime) /\ CalledOther
    \/ SysFork /\ live = {INITPROC} /\ CalledOther
    \/ \E start \in MmapStarts, len \in MmapLens, port \in MmapPorts :
          SysMmap(start, len, port) /\ Called(SYSCALL_MMAP, <<start, len, port>>)
    \/ \E start \in MunmapStarts, len \in MmapLens :
          SysMunmap(start, len) /\ Called(SYSCALL_MUNMAP, <<start, len>>)
    \/ \E start \in MmapStarts, len \in MmapLens, port \in MmapPorts :
          Os4SysMmap(start, len, port) /\ Called(SYSCALL_MMAP, <<start, len, port>>)
    \/ \E start \in MunmapStarts, len \in MmapLens :
          Os4SysMunmap(start, len) /\ Called(SYSCALL_MUNMAP, <<start, len>>)

SpecMm == InitMm /\ [][NextMm]_vars

(* ------------------------- every port of mmap ------------------------- *)

\* The ports from no bit to the first reserved bit, and two pages to map.
PortArgs == 0 .. 8
PortStarts == {MmBase, MmBase + PAGE_SIZE}

\* INITPROC of os5 or the first application of os4 maps single pages with
\* every port and unmaps them.
NextPort ==
    \/ RunTasks(MaxTime) /\ CalledOther
    \/ \E start \in PortStarts, port \in PortArgs :
          SysMmap(start, PAGE_SIZE, port) /\ Called(SYSCALL_MMAP, <<start, PAGE_SIZE, port>>)
    \/ \E start \in PortStarts :
          SysMunmap(start, PAGE_SIZE) /\ Called(SYSCALL_MUNMAP, <<start, PAGE_SIZE>>)
    \/ \E start \in PortStarts, port \in PortArgs :
          Os4SysMmap(start, PAGE_SIZE, port) /\ Called(SYSCALL_MMAP, <<start, PAGE_SIZE, port>>)
    \/ \E start \in PortStarts :
          Os4SysMunmap(start, PAGE_SIZE) /\ Called(SYSCALL_MUNMAP, <<start, PAGE_SIZE>>)

SpecPort == InitMm /\ [][NextPort]_vars

(* --------------------------- trap contexts ---------------------------- *)

\* trap_handler on a UserEnvCall at the user address site: `cx.sepc += 4`
\* before the system call is dispatched.
UserEnvCall(site) == [trap_cx[current] EXCEPT !.sepc = site + 4]

\* The trap context pages after a system call that leaves `own` in the page
\* of the caller and `child` in the page of a task it created; the pages of
\* a dropped task are freed with its address space.
TrapCx(own, child) ==
    /\ trap_cx' = [s \in Slots |->
                      IF s \notin live' THEN NoTrapCx
                      ELSE IF s = current THEN own
                      ELSE IF s \notin live THEN child
                      ELSE trap_cx[s]]
    /\ UNCHANGED <<disp, last_call, infovars, pathvars>>

\* Mutant: the kernel stack of the parent stays in the trap context of the
\* child.
fork_trap_cx_KeepsKernelSp(cx, pid) == cx

\* TaskControlBlock::fork: the trap context comes with the copy of the
\* address space, then `trap_cx.kernel_sp = kernel_stack_top`.
fork_trap_cx(cx, pid) == [cx EXCEPT !.kernel_sp = get_top(pid)]

\* The lifecycle with the trap context of every task, INITPROC having
\* mapped a page or not.
NextTrap ==
    \/ RunTasks(MaxTrapTime) /\ Unobserved
    \/ TimerTrap /\ Unobserved
    \/ \E site \in EcallSites :
        LET cx == UserEnvCall(site)
        IN \/ SysYield /\ TrapCx(cx, NoTrapCx)
           \/ SysFork /\ Cardinality(live) < MaxTrapTasks
                      /\ TrapCx(cx, fork_trap_cx(cx, PidAllocPid))
           \/ SysSpawnUnknown /\ TrapCx(cx, NoTrapCx)
           \/ SysSpawn /\ Cardinality(live) < MaxTrapTasks
                       /\ TrapCx(cx, app_init_context(entry_point, get_top(PidAllocPid)))
           \/ SysExecUnknown /\ TrapCx(cx, NoTrapCx)
           \/ SysExec /\ TrapCx(app_init_context(entry_point, get_top(tcb[current].pid)),
                                 NoTrapCx)
           \/ \E exit_code \in ExitCodes :
                 SysExit(exit_code)
                 /\ TrapCx(IF current = INITPROC THEN cx ELSE NoTrapCx, NoTrapCx)
           \/ \E pid \in WaitArgs : SysWaitpid(pid) /\ TrapCx(cx, NoTrapCx)
           \/ SysMmap(MmBase, 1, 3) /\ current = INITPROC /\ TrapCx(cx, NoTrapCx)

SpecTrap == Init /\ [][NextTrap]_vars

(* ---------------------- counters and task_info ------------------------ *)

UsizeMod == 2 ^ UsizeBits

\* get_time_us() when the first task is dispatched.
BootTime == 1000

\* Mutant: every call is counted as a yield.
update_current_task_syscall_times_AsYield(times, task, syscall_id) ==
    [times EXCEPT ![task][SYSCALL_YIELD] = @ + 1]

\* update_current_task_syscall_times of os5, and of os4, whose unwrap
\* cannot fail below the 500 of `syscall`: `*times += 1` where the Vec has
\* a counter for the id.
update_current_task_syscall_times(times, task, syscall_id) ==
    IF syscall_id < MAX_SYSCALL_NUM
    THEN [times EXCEPT ![task][syscall_id] = @ + 1]
    ELSE times

\* System calls the task has made.
CallsOf(task) == SumOver(CountedIds, syscall_times[task])

\* The head of `syscall`: the hook for ids below 500, before the match.
HookedTimes(task, syscall_id) ==
    IF syscall_id < 500
    THEN update_current_task_syscall_times(syscall_times, task, syscall_id)
    ELSE syscall_times

\* A system call of os5 through `syscall`. The counters go with the TCB
\* when it is dropped.
Hooked(syscall_id) ==
    /\ current # None
    /\ CallsOf(current) < MaxCalls
    /\ last_call' = [id |-> syscall_id, args |-> <<>>]
    /\ syscall_times' = [s \in Slots |-> IF s \in live'
                                         THEN HookedTimes(current, syscall_id)[s]
                                         ELSE NoTimes]
    /\ first_dispatch' = [s \in Slots |-> IF s \in live' THEN first_dispatch[s] ELSE 0]
    /\ UNCHANGED <<disp, trap_cx, pathvars>>

\* The arm `_ => panic!("Unsupported syscall_id: {}", syscall_id)`.
SysUnsupported ==
    /\ panicked = NoPanic
    /\ current # None
    /\ panicked' = "Unsupported syscall_id"
    /\ UNCHANGED <<tcb, live, ready_queue, current, time, pid_current, pid_recycled, os4vars>>

\* `curr_time - first_time` in usize: the difference, or below 0 the wrapped
\* difference of a build without overflow checks (-1 stands for the panic
\* of a build with them).
usize_sub(a, b) == IF a >= b THEN {a - b} ELSE {(a - b) % UsizeMod, -1}

\* sys_task_info of os5, the pointer mapped: status Running, the counters
\* as the hook of this call left them, and the time.
SysTaskInfo ==
    /\ panicked = NoPanic
    /\ current # None
    /\ LET curr_time == time \div 1000
           first_time == tcb[current].task_first_time
       IN \E d \in usize_sub(curr_time, first_time) :
            IF d = -1
            THEN /\ panicked' = "attempt to subtract with overflow"
                 /\ UNCHANGED <<tcb, task_info>>
            ELSE /\ task_info' = [task |-> current, status |-> "Running",
                                  syscall_times |->
                                      HookedTimes(current, SYSCALL_TASK_INFO)[current],
                                  time |-> d]
                 /\ tcb' = [tcb EXCEPT ![current] = [@ EXCEPT !.x10 = 0]]
                 /\ UNCHANGED panicked
    /\ UNCHANGED <<live, ready_queue, current, time, pid_current, pid_recycled, os4vars>>

\* The idle loop of os5, the first dispatch of a task noted.
RunTasksNoted(limit) ==
    /\ RunTasks(limit)
    /\ first_dispatch' = [first_dispatch EXCEPT ![current'] = IF @ = 0 THEN time' ELSE @]
    /\ last_call' = NoCall
    /\ UNCHANGED <<disp, trap_cx, syscall_times, task_info, pathvars>>

\* The clock runs for a millisecond while a task is in user mode.
Elapse ==
    /\ panicked = NoPanic
    /\ current # None \/ Os4Running
    /\ (time + 1000) \div 1000 <= MaxInfoMs
    /\ time' = time + 1000
    /\ last_call' = NoCall
    /\ UNCHANGED <<tcb, live, ready_queue, current, pid_current, pid_recycled, panicked,
                   os4vars, disp, trap_cx, infovars, pathvars>>

\* A system call of os4 through `syscall`.
Os4Hooked(syscall_id) ==
    /\ Os4Running
    /\ CallsOf(current_task) < MaxCalls
    /\ last_call' = [id |-> syscall_id, args |-> <<>>]
    /\ syscall_times' = HookedTimes(current_task, syscall_id)
    /\ UNCHANGED <<disp, trap_cx, pathvars>>

\* get_num_app(): the entries of the task list TASK_MANAGER set up (in os3
\* the list has MAX_APP_NUM entries, the others stay UnInit).
num_app(ts) == Cardinality({i \in 1 .. Len(ts) : ts[i].task_status # "UnInit"})

\* Mutant: every task that is not Running is taken, `status != Running`.
find_next_task_NotRunning(ts, cur) ==
    LET n == num_app(ts)
        id(i) == ((cur - 1 + i) % n) + 1
        hits == {i \in 1 .. n : ts[id(i)].task_status # "Running"}
    IN IF hits = {} THEN None ELSE id(CHOOSE i \in hits : \A j \in hits : i <= j)

\* Mutant: the range begins at the current task, `current..current + num_app`.
find_next_task_FromCurrent(ts, cur) ==
    LET n == num_app(ts)
        id(i) == ((cur - 2 + i) % n) + 1
        hits == {i \in 1 .. n : ts[id(i)].task_status = "Ready"}
    IN IF hits = {} THEN None ELSE id(CHOOSE i \in hits : \A j \in hits : i <= j)

\* TaskManager::find_next_task of os4: the first Ready task after the
\* current one, the current one last (None: there is none).
find_next_task(ts, cur) ==
    LET n == num_app(ts)
        id(i) == ((cur - 1 + i) % n) + 1
        hits == {i \in 1 .. n : ts[id(i)].task_status = "Ready"}
    IN IF hits = {} THEN None ELSE id(CHOOSE i \in hits : \A j \in hits : i <= j)

\* Mutant: `inner.current_task = next` without the status of the task.
run_next_task_KeepsStatus(ts, next) ==
    [ts EXCEPT ![next] = [@ EXCEPT !.task_first_time = IF @ = 0 THEN time \div 1000 ELSE @]]

\* TaskManager::run_next_task of os4 when find_next_task found `next`.
run_next_task(ts, next) ==
    [ts EXCEPT ![next] = [@ EXCEPT !.task_status = "Running",
                                   !.task_first_time = IF @ = 0 THEN time \div 1000 ELSE @]]

\* sys_yield of os4: suspend_current_and_run_next, then 0.
Os4SysYield ==
    /\ panicked = NoPanic
    /\ Os4Running
    /\ LET suspended == [tasks EXCEPT ![current_task] =
                            [@ EXCEPT !.task_status = "Ready", !.x10 = 0]]
           next == find_next_task(suspended, current_task)
       IN /\ tasks' = run_next_task(suspended, next)
          /\ current_task' = next
          /\ first_dispatch' = [first_dispatch EXCEPT ![next] = IF @ = 0 THEN time ELSE @]
    /\ UNCHANGED <<kernel, os5vars, task_info>>

\* sys_exit of os4: exit_current_and_run_next.
Os4SysExit ==
    /\ panicked = NoPanic
    /\ Os4Running
    /\ LET exited == [tasks EXCEPT ![current_task] = [@ EXCEPT !.task_status = "Exited"]]
           next == find_next_task(exited, current_task)
       IN IF next = None
          THEN /\ tasks' = exited
               /\ panicked' = "All applications completed!"
               /\ UNCHANGED <<current_task, first_dispatch>>
          ELSE /\ tasks' = run_next_task(exited, next)
               /\ current_task' = next
               /\ first_dispatch' = [first_dispatch EXCEPT ![next] = IF @ = 0 THEN time ELSE @]
               /\ UNCHANGED panicked
    /\ UNCHANGED <<kernel, tcb, live, ready_queue, current, time, pid_current, pid_recycled,
                   task_info>>

\* sys_task_info of os4.
Os4SysTaskInfo ==
    /\ panicked = NoPanic
    /\ Os4Running
    /\ LET curr_time == time \div 1000
           first_time == tasks[current_task].task_first_time
       IN \E d \in usize_sub(curr_time, first_time) :
            IF d = -1
            THEN /\ panicked' = "attempt to subtract with overflow"
                 /\ UNCHANGED <<tasks, task_info>>
            ELSE /\ task_info' = [task |-> current_task, status |-> "Running",
                                  syscall_times |->
                                      HookedTimes(current_task, SYSCALL_TASK_INFO)[current_task],
                                  time |-> d]
                 /\ tasks' = [tasks EXCEPT ![current_task] = [@ EXCEPT !.x10 = 0]]
                 /\ UNCHANGED panicked
    /\ UNCHANGED <<kernel, current_task, tcb, live, ready_queue, current, time, pid_current,
                   pid_recycled, first_dispatch>>

\* Either kernel image is up a millisecond after power-on.
InitInfo ==
    \/ kernel = "os5" /\ BootOs5At(BootTime) /\ tasks = <<>> /\ current_task = 0
    \/ kernel = "os4" /\ BootOs4At(BootTime)

\* System calls through `syscall`, between them the clock; INITPROC has
\* one child at a time.
NextInfo ==
    \/ RunTasksNoted((MaxInfoMs + 1) * 1000)
    \/ Elapse
    \/ SysYield /\ Hooked(SYSCALL_YIELD) /\ UNCHANGED task_info
    \/ SysFork /\ live = {INITPROC} /\ Hooked(SYSCALL_FORK) /\ UNCHANGED task_info
    \/ SysSpawn /\ live = {INITPROC} /\ Hooked(SYSCALL_SPAWN) /\ UNCHANGED task_info
    \/ SysExec /\ Hooked(SYSCALL_EXEC) /\ UNCHANGED task_info
    \/ \E exit_code \in ExitCodes :
          SysExit(exit_code) /\ Hooked(SYSCALL_EXIT) /\ UNCHANGED task_info
    \/ SysWaitpid(-1) /\ Hooked(SYSCALL_WAITPID) /\ UNCHANGED task_info
    \/ SysTaskInfo /\ Hooked(SYSCALL_TASK_INFO)
    \/ \E id \in UnsupportedIds : SysUnsupported /\ Hooked(id) /\ UNCHANGED task_info
    \/ Os4SysYield /\ Os4Hooked(SYSCALL_YIELD)
    \/ Os4SysExit /\ Os4Hooked(SYSCALL_EXIT)
    \/ Os4SysTaskInfo /\ Os4Hooked(SYSCALL_TASK_INFO) /\ UNCHANGED first_dispatch

SpecInfo == InitInfo /\ [][NextInfo]_vars

(* ------------------------- creation of tasks -------------------------- *)

\* A trap that is no system call leaves the counters alone.
NotCounted == last_call' = NoCall /\ UNCHANGED <<disp, trap_cx, infovars, pathvars>>

\* os5 a millisecond after power-on, INITPROC in the ready queue.
InitNew ==
    /\ BootOs5At(BootTime)
    /\ kernel = "os5"
    /\ tasks = <<>>
    /\ current_task = 0

\* Tasks that were dispatched, set their priority and made system calls
\* fork and spawn.
NextNew ==
    \/ RunTasksNoted(BootTime + MaxTime)
    \/ TimerTrap /\ NotCounted
    \/ \E prio \in StridePrioArgs :
          SysSetPriority(prio) /\ Hooked(SYSCALL_SET_PRIORITY) /\ UNCHANGED task_info
    \/ SysFork /\ Hooked(SYSCALL_FORK) /\ UNCHANGED task_info
    \/ SysSpawn /\ Hooked(SYSCALL_SPAWN) /\ UNCHANGED task_info

SpecNew == InitNew /\ [][NextNew]_vars

(* ---------------------------- sys_get_time ---------------------------- *)

\* get_time_us() when INITPROC is enqueued in the runs with sys_get_time:
\* two microseconds before the clock reaches a second.
TimeBoot == SecondUs - 2

\* Mutant: the remainder is taken in milliseconds.
sys_get_time_Ms(us) == [sec |-> us \div 1000000, usec |-> us % 1000]

\* The TimeVal sys_get_time builds from get_time_us().
sys_get_time(us) == [sec |-> us \div 1000000, usec |-> us % 1000000]

\* sys_get_time of os5, the pointer mapped: the TimeVal is written to the
\* address space of the caller and 0 returned.
SysGetTime ==
    /\ panicked = NoPanic
    /\ current # None
    /\ LET us == time
       IN time_val' = [time_val EXCEPT ![current] = sys_get_time(us)]
    /\ tcb' = [tcb EXCEPT ![current] = [@ EXCEPT !.x10 = 0]]
    /\ last_call' = [id |-> SYSCALL_GET_TIME, args |-> <<>>]
    /\ UNCHANGED <<live, ready_queue, current, time, pid_current, pid_recycled, panicked,
                   os4vars, disp, trap_cx, infovars, kernel_ops, entryvars>>

\* The clock runs for a microsecond while a task is in user mode.
Tick ==
    /\ panicked = NoPanic
    /\ current # None
    /\ time < TimeBoot + MaxTicks
    /\ time' = time + 1
    /\ last_call' = NoCall
    /\ UNCHANGED <<tcb, live, ready_queue, current, pid_current, pid_recycled, panicked,
                   os4vars, disp, trap_cx, infovars, pathvars>>

\* The child of a fork finds in its copy of the address space the TimeVal
\* of its parent.
ForkedTimeVal ==
    /\ time_val' = [time_val EXCEPT ![FreeSlot] = time_val[current]]
    /\ last_call' = NoCall
    /\ UNCHANGED <<disp, trap_cx, infovars, kernel_ops, entryvars>>

InitTime ==
    /\ BootOs5At(TimeBoot)
    /\ kernel = "os5"
    /\ tasks = <<>>
    /\ current_task = 0

\* INITPROC and a child read the clock while it passes a second.
NextTime ==
    \/ RunTasks(TimeBoot + MaxTicks) /\ CalledOther
    \/ TimerTrap /\ CalledOther
    \/ SysYield /\ CalledOther
    \/ SysFork /\ live = {INITPROC} /\ ForkedTimeVal
    \/ Tick
    \/ SysGetTime

SpecTime == InitTime /\ [][NextTime]_vars

(* ------------------- RefCell borrows and switches --------------------- *)

\* One step of a kernel path: exclusive_access of a cell, the drop of the
\* RefMut it returned, set_next_trigger, or __switch.  The cells are
\* PROCESSOR, TASK_MANAGER, and the inner cell of the task `task`.
KernelOp(op, cell, task) == [op |-> op, cell |-> cell, task |-> task]
Borrow(cell, task) == KernelOp("borrow", cell, task)
DropRef(cell, task) == KernelOp("drop", cell, task)
SwitchOp == KernelOp("__switch", "none", 0)
SetNextTriggerOp == KernelOp("set_next_trigger", "none", 0)

\* `CELL.exclusive_access().f()`: the temporary is dropped with the
\* statement.
Access(cell, task) == <<Borrow(cell, task), DropRef(cell, task)>>

\* The loop of TaskManager::fetch from position idx of q on: `inner` of the
\* entry and, behind the head, `pre_inner` of the entry before it, dropped
\* in reverse at the end of the iteration.
RECURSIVE FetchLoopOps(_, _)
FetchLoopOps(q, idx) ==
    IF idx > Len(q) THEN <<>>
    ELSE (IF idx = 1 THEN Access("inner", q[1])
          ELSE <<Borrow("inner", q[idx]), Borrow("inner", q[idx - 1]),
                 DropRef("inner", q[idx - 1]), DropRef("inner", q[idx])>>)
         \o FetchLoopOps(q, idx + 1)

\* fetch_task: `TASK_MANAGER.exclusive_access().fetch()`
fetch_task_Ops(q) ==
    <<Borrow("TASK_MANAGER", 0)>> \o FetchLoopOps(q, 1) \o <<DropRef("TASK_MANAGER", 0)>>

\* Mutant: run_tasks without `drop(processor)`.
RunTasksOps_KeepsProcessor(q, task) ==
    <<Borrow("PROCESSOR", 0)>> \o fetch_task_Ops(q)
        \o Access("inner", task) \o <<SwitchOp>>

\* One iteration of run_tasks over the queue q that dispatches `task`.
RunTasksOps(q, task) ==
    <<Borrow("PROCESSOR", 0)>> \o fetch_task_Ops(q)
        \o Access("inner", task) \o <<DropRef("PROCESSOR", 0), SwitchOp>>

\* schedule
schedule_Ops == Access("PROCESSOR", 0) \o <<SwitchOp>>

\* suspend_current_and_run_next of os5: take_current_task, task_inner,
\* add_task, schedule.
SuspendOps(task) ==
    Access("PROCESSOR", 0) \o Access("inner", task) \o Access("TASK_MANAGER", 0)
        \o schedule_Ops

\* Mutant: the timer is armed when the task runs again.
TimerTrapOps_Late(task) == SuspendOps(task) \o <<SetNextTriggerOp>>

\* The SupervisorTimer arm of trap_handler: set_next_trigger, then
\* suspend_current_and_run_next.
TimerTrapOps(task) == <<SetNextTriggerOp>> \o SuspendOps(task)

\* The children loop of exit_current_and_run_next.
RECURSIVE ReparentOps(_)
ReparentOps(children) ==
    IF children = <<>> THEN <<>>
    ELSE Access("inner", Head(children)) \o ReparentOps(Tail(children))

\* exit_current_and_run_next of os5 for a task with these children; for
\* INITPROC the path ends in the second borrow of its cell, which panics.
ExitOps(task, children) ==
    Access("PROCESSOR", 0) \o <<Borrow("inner", task)>>
        \o (IF task = INITPROC THEN <<Borrow("inner", INITPROC)>>
            ELSE <<Borrow("inner", INITPROC)>> \o ReparentOps(children)
                    \o <<DropRef("inner", INITPROC), DropRef("inner", task)>>
                    \o schedule_Ops)

\* sys_fork: current_task, fork (parent_inner over init_syscall_times and
\* the trap context of the child), the trap context again, add_task.
ForkOps(task, child) ==
    Access("PROCESSOR", 0)
        \o <<Borrow("inner", task)>> \o Access("inner", child) \o Access("inner", child)
        \o <<DropRef("inner", task)>>
        \o Access("inner", child) \o Access("TASK_MANAGER", 0)

\* sys_spawn behind translated_str: current_task, spawn (init_syscall_times
\* and the trap context of the child, then parent_inner), add_task,
\* suspend_current_and_run_next.
SpawnOps(task, child) ==
    Access("PROCESSOR", 0)
        \o Access("inner", child) \o Access("inner", task) \o Access("inner", child)
        \o Access("TASK_MANAGER", 0) \o SuspendOps(task)

\* run_first_task of os3 and os4.
run_first_task_Ops == Access("TASK_MANAGER", 0) \o <<SwitchOp>>

\* run_next_task of os3 and os4 when find_next_task returns `next`.
run_next_task_Ops(next) ==
    Access("TASK_MANAGER", 0)
        \o (IF next = None THEN <<>> ELSE Access("TASK_MANAGER", 0) \o <<SwitchOp>>)

\* mark_current_suspended or mark_current_exited, then run_next_task.
MarkAndRunNextOps(next) == Access("TASK_MANAGER", 0) \o run_next_task_Ops(next)

\* The head of trap_handler: current_trap_cx() in os4, nothing in os3.
TrapHandlerOps(k) == IF k = "os4" THEN Access("TASK_MANAGER", 0) ELSE <<>>

\* A system call, a trap or a dispatch with the path ops; a dispatch and a
\* timer interrupt enter no system call.
Traced(ops) ==
    /\ kernel_ops' = ops
    /\ UNCHANGED <<disp, trap_cx, infovars, time_val, entryvars>>

\* os5 with INITPROC in the ready queue.
InitPaths == Init

\* The lifecycle of os5 with the path of every trap and dispatch.
NextPaths ==
    \/ /\ RunTasks(MaxTime)
       /\ Traced(RunTasksOps(ready_queue, current'))
       /\ UNCHANGED last_call
    \/ /\ SysYield
       /\ Traced(SuspendOps(current))
       /\ last_call' = [id |-> SYSCALL_YIELD, args |-> <<>>]
    \/ /\ TimerTrap
       /\ Traced(TimerTrapOps(current))
       /\ last_call' = NoCall
    \/ /\ SysFork
       /\ Traced(ForkOps(current, FreeSlot))
       /\ last_call' = [id |-> SYSCALL_FORK, args |-> <<>>]
    \/ /\ SysSpawn
       /\ Traced(SpawnOps(current, FreeSlot))
       /\ last_call' = [id |-> SYSCALL_SPAWN, args |-> <<>>]
    \/ \E exit_code \in ExitCodes :
          /\ SysExit(exit_code)
          /\ Traced(ExitOps(current, tcb[current].children))
          /\ last_call' = [id |-> SYSCALL_EXIT, args |-> <<exit_code>>]

SpecPaths == InitPaths /\ [][NextPaths]_vars

(* --------------------- trap entry of os3 and os4 ---------------------- *)

\* The causes user programs raise: those of the arms of trap_handler and
\* of the spec, and one no arm names.
Causes ==
    {"UserEnvCall", "StoreFault", "StorePageFault", "LoadFault", "LoadPageFault",
     "IllegalInstruction", "SupervisorTimer", "InstructionPageFault"}

\* The causes whose arm of trap_handler is exit_current_and_run_next.
KillingCauses(k) ==
    IF k = "os3" THEN {"StoreFault", "StorePageFault", "IllegalInstruction"}
    ELSE {"StoreFault", "StorePageFault", "LoadPageFault", "IllegalInstruction"}

\* x[17] with x[10], x[11], x[12] of the system calls user programs make
\* (yield reads none of its arguments, the registers hold what they hold).
EntryCalls ==
    {<<SYSCALL_YIELD, <<5, 0, 0>>>>, <<SYSCALL_EXIT, <<0, 0, 0>>>>,
     <<SYSCALL_MMAP, <<MmBase, 1, 3>>>>, <<SYSCALL_SET_PRIORITY, <<2, 0, 0>>>>,
     <<1, <<0, 0, 0>>>>}

\* The TaskControlBlock of os3 has no address space.
Os3TCB == [Os4TCB EXCEPT !.memory_set = <<>>]

\* Where the TaskContext of a task that never ran returns to:
\* TaskContext::goto_trap_return in os4, goto_restore in os3.
FirstFrame(k) ==
    [kind |-> IF k = "os4" THEN "trap_return" ELSE "__restore", ret |-> 0, cx |-> None]

\* os3 or os4 after run_first_task: two applications, the first in user
\* mode at its entry point.
BootEntry(k) ==
    /\ kernel = k
    /\ LET new == IF k = "os4" THEN Os4TCB ELSE Os3TCB
       IN tasks = <<[new EXCEPT !.task_status = "Running",
                                !.task_first_time = BootTime \div 1000], new>>
    /\ current_task = 1
    /\ tcb = [s \in Slots |-> FreeTCB]
    /\ live = {}
    /\ ready_queue = <<>>
    /\ current = None
    /\ time = BootTime
    /\ pid_current = 0
    /\ pid_recycled = <<>>
    /\ panicked = NoPanic
    /\ disp = NoDispatches
    /\ last_call = NoCall
    /\ trap_cx = [s \in Slots |-> IF s <= 2
                                  THEN app_init_context(entry_point, get_top(s - 1))
                                  ELSE NoTrapCx]
    /\ syscall_times = [s \in Slots |-> NoTimes]
    /\ task_info = NoInfo
    /\ first_dispatch = [s \in Slots |-> IF s = 1 THEN BootTime ELSE 0]
    /\ time_val = [s \in Slots |-> NoTimeVal]
    /\ kernel_ops = run_first_task_Ops
    /\ scause = NoCause
    /\ stvec = (IF k = "os4" THEN "TRAMPOLINE" ELSE "__alltraps")
    /\ mode = "user"
    /\ kstack = [s \in Slots |-> IF s = 2 THEN FirstFrame(k) ELSE NoKFrame]
    /\ uregs = [s \in Slots |-> NoRegs]

\* What the entry of a trap leaves alone.
entryrest == <<tcb, live, ready_queue, current, time, pid_current, pid_recycled,
               kernel, disp, infovars, time_val>>

\* A trap from user mode at the user address site: __alltraps saves the
\* registers in the TrapContext, and trap_handler of os4 begins with
\* set_kernel_trap_entry.
UserTrap(site, cause, x17, args) ==
    /\ panicked = NoPanic
    /\ mode = "user"
    /\ Os4Running
    /\ trap_cx' = [trap_cx EXCEPT ![current_task] = [@ EXCEPT !.sepc = site]]
    /\ tasks' = [tasks EXCEPT ![current_task] = [@ EXCEPT !.x10 = args[1]]]
    /\ uregs' = [uregs EXCEPT ![current_task] =
                    [x17 |-> x17, x11 |-> args[2], x12 |-> args[3]]]
    /\ scause' = cause
    /\ mode' = "kernel"
    /\ stvec' = (IF kernel = "os4" THEN "trap_from_kernel" ELSE stvec)
    /\ UNCHANGED <<current_task, panicked, last_call, kstack, kernel_ops, entryrest>>

\* An exception while the kernel handles a trap: the hart jumps to stvec.
KernelTrap ==
    /\ panicked = NoPanic
    /\ mode = "kernel"
    /\ kernel = "os4"
    /\ panicked' = (IF stvec = "trap_from_kernel" THEN "a trap from kernel!"
                    ELSE "__alltraps entered from the kernel")
    /\ UNCHANGED <<tasks, current_task, trap_cx, last_call, kernel_ops, entryvars, entryrest>>

\* Mutant: only a task that comes back through trap_handler passes
\* set_user_trap_entry, a new task goes to __restore as it does in os3.
StvecToUser_NewSkips(frame) ==
    IF kernel = "os4" /\ frame.kind # "trap_return" THEN "TRAMPOLINE" ELSE stvec

\* trap_return of os4 begins with set_user_trap_entry; trap_handler of os3
\* returns to __restore.
StvecToUser(frame) == IF kernel = "os4" THEN "TRAMPOLINE" ELSE stvec

\* The task goes on in trap_handler behind the __switch, or the system
\* call, it was suspended in: the result of a system call is stored in
\* x[10] of the TrapContext `cx` of that trap_handler.
Resumed(ts, frame) ==
    IF frame.kind = "syscall" THEN [ts EXCEPT ![frame.cx] = [@ EXCEPT !.x10 = frame.ret]]
    ELSE ts

\* The end of trap_handler for the task `next`, whose kernel stack is
\* frames[next]: back to user mode.
ToUser(ts, next, frames) ==
    /\ tasks' = Resumed(ts, frames[next])
    /\ current_task' = next
    /\ kstack' = [frames EXCEPT ![next] = NoKFrame]
    /\ stvec' = StvecToUser(frames[next])
    /\ mode' = "user"
    /\ scause' = NoCause
    /\ UNCHANGED panicked

\* run_next_task of os3 and os4 with the tasks ts and the kernel stacks
\* frames, at the end of the path ops.
RunNextTask(ts, frames, ops) ==
    LET next == find_next_task(ts, current_task)
    IN /\ kernel_ops' = ops \o MarkAndRunNextOps(next)
       /\ IF next = None
          THEN /\ panicked' = "All applications completed!"
               /\ tasks' = ts
               /\ kstack' = frames
               /\ UNCHANGED <<current_task, stvec, mode, scause>>
          ELSE ToUser(run_next_task(ts, next), next, frames)

\* suspend_current_and_run_next from trap_handler, `frame` left on the
\* kernel stack.
EntrySuspend(frame, ops) ==
    RunNextTask([tasks EXCEPT ![current_task] = [@ EXCEPT !.task_status = "Ready"]],
                [kstack EXCEPT ![current_task] = frame], ops)

\* exit_current_and_run_next from trap_handler.
EntryExit(ops) ==
    RunNextTask([tasks EXCEPT ![current_task] = [@ EXCEPT !.task_status = "Exited"]],
                kstack, ops)

\* Mutant: the saved sepc is left at the ecall.
EcallSepc_Same(sepc) == sepc

\* `cx.sepc += 4`
EcallSepc(sepc) == sepc + 4

\* `syscall(cx.x[17], [cx.x[10], cx.x[11], cx.x[12]])` for the TrapContext
\* cx, and `cx.x[10] = ...` with what it returns.
EntrySyscall(cx) ==
    LET syscall_id == uregs[cx].x17
        args == <<tasks[cx].x10, uregs[cx].x11, uregs[cx].x12>>
    IN /\ last_call' = [id |-> syscall_id, args |-> args]
       /\ IF syscall_id = SYSCALL_YIELD
          THEN EntrySuspend([kind |-> "syscall", ret |-> 0, cx |-> cx], TrapHandlerOps(kernel))
          ELSE IF syscall_id = SYSCALL_EXIT
          THEN EntryExit(TrapHandlerOps(kernel))
          ELSE IF syscall_id = SYSCALL_MMAP /\ kernel = "os4"
          THEN LET r == TaskManager_mmap(tasks[current_task].memory_set,
                                         args[1], args[2], args[3])
                   mapped == [tasks EXCEPT ![current_task] =
                                 [@ EXCEPT !.memory_set = r.memory_set]]
               IN /\ ToUser(mapped, current_task,
                            [kstack EXCEPT ![current_task] =
                                [kind |-> "syscall", ret |-> r.ret, cx |-> cx]])
                  /\ kernel_ops' = TrapHandlerOps(kernel) \o Access("TASK_MANAGER", 0)
          ELSE IF syscall_id = SYSCALL_SET_PRIORITY /\ kernel = "os4"
          THEN /\ ToUser(tasks, current_task,
                         [kstack EXCEPT ![current_task] =
                             [kind |-> "syscall", ret |-> -1, cx |-> cx]])
               /\ kernel_ops' = TrapHandlerOps(kernel)
          ELSE /\ panicked' = "Unsupported syscall_id"
               /\ kernel_ops' = TrapHandlerOps(kernel)
               /\ UNCHANGED <<tasks, current_task, entryvars>>

\* trap_handler of os3 and os4 behind set_kernel_trap_entry, up to the
\* return to user mode of the task that runs next.
TrapHandler ==
    /\ panicked = NoPanic
    /\ mode = "kernel"
    /\ LET cx == current_task
       IN IF scause = "UserEnvCall"
          THEN /\ trap_cx' = [trap_cx EXCEPT ![cx] = [@ EXCEPT !.sepc = EcallSepc(@)]]
               /\ EntrySyscall(cx)
          ELSE IF scause \in KillingCauses(kernel)
          THEN /\ EntryExit(TrapHandlerOps(kernel))
               /\ UNCHANGED <<trap_cx, last_call>>
          ELSE IF scause = "SupervisorTimer"
          THEN /\ EntrySuspend([kind |-> "timer", ret |-> 0, cx |-> cx],
                               TrapHandlerOps(kernel) \o <<SetNextTriggerOp>>)
               /\ UNCHANGED <<trap_cx, last_call>>
          ELSE /\ panicked' = "Unsupported trap"
               /\ kernel_ops' = TrapHandlerOps(kernel)
               /\ UNCHANGED <<tasks, current_task, trap_cx, last_call, entryvars>>
    /\ UNCHANGED <<uregs, entryrest>>

InitEntry == BootEntry("os3") \/ BootEntry("os4")

\* Two applications of os3 or of os4 trap from either of two addresses: with
\* a system call (os3 is asked for yield and exit only), or with another
\* cause and the registers of the last system call.
NextEntry ==
    \/ \E site \in EcallSites, call \in EntryCalls :
          /\ kernel = "os3" => call[1] \in {SYSCALL_YIELD, SYSCALL_EXIT}
          /\ UserTrap(site, "UserEnvCall", call[1], call[2])
    \/ \E site \in EcallSites, cause \in Causes \ {"UserEnvCall"} :
          UserTrap(site, cause, uregs[current_task].x17,
                   <<tasks[current_task].x10, uregs[current_task].x11,
                     uregs[current_task].x12>>)
    \/ KernelTrap
    \/ TrapHandler

SpecEntry == InitEntry /\ [][NextEntry]_vars

(* ------------------ the task list of os3 and os4 ---------------------- *)

\* os3 or os4 after run_first_task with NumApps applications, the first in
\* user mode; the list of os3 has an entry more than there are
\* applications (MAX_APP_NUM is above get_num_app()).
BootApps(k) ==
    /\ kernel = k
    /\ LET new == IF k = "os4" THEN Os4TCB ELSE Os3TCB
           first == [new EXCEPT !.task_status = "Running",
                                !.task_first_time = BootTime \div 1000]
           apps == [i \in 1 .. NumApps |-> IF i = 1 THEN first ELSE new]
       IN tasks = IF k = "os4" THEN apps
                  ELSE Append(apps, [Os3TCB EXCEPT !.task_status = "UnInit"])
    /\ current_task = 1
    /\ tcb = [s \in Slots |-> FreeTCB]
    /\ live = {}
    /\ ready_queue = <<>>
    /\ current = None
    /\ time = BootTime
    /\ pid_current = 0
    /\ pid_recycled = <<>>
    /\ panicked = NoPanic
    /\ disp = NoDispatches
    /\ last_call = NoCall
    /\ trap_cx = [s \in Slots |-> IF s <= NumApps
                                  THEN app_init_context(entry_point, get_top(s - 1))
                                  ELSE NoTrapCx]
    /\ syscall_times = [s \in Slots |-> NoTimes]
    /\ task_info = NoInfo
    /\ first_dispatch = [s \in Slots |-> IF s = 1 THEN BootTime ELSE 0]
    /\ time_val = [s \in Slots |-> NoTimeVal]
    /\ kernel_ops = run_first_task_Ops
    /\ scause = NoCause
    /\ stvec = (IF k = "os4" THEN "TRAMPOLINE" ELSE "__alltraps")
    /\ mode = "user"
    /\ kstack = [s \in Slots |-> IF 1 < s /\ s <= NumApps THEN FirstFrame(k) ELSE NoKFrame]
    /\ uregs = [s \in Slots |-> NoRegs]

InitApps == BootApps("os3") \/ BootApps("os4")

\* What the applications do: yield or exit, be preempted, or store where
\* they may not.
AppCalls == {<<SYSCALL_YIELD, <<5, 0, 0>>>>, <<SYSCALL_EXIT, <<0, 0, 0>>>>}
AppCauses == {"SupervisorTimer", "StoreFault"}

NextApps ==
    \/ \E call \in AppCalls : UserTrap(entry_point, "UserEnvCall", call[1], call[2])
    \/ \E cause \in AppCauses :
          UserTrap(entry_point, cause, uregs[current_task].x17,
                   <<tasks[current_task].x10, uregs[current_task].x11,
                     uregs[current_task].x12>>)
    \/ TrapHandler

SpecApps == InitApps /\ [][NextApps]_vars

\* The hart that took a trap goes through trap_handler: nothing else is
\* there for it to do.
SpecAppsFair == SpecApps /\ WF_vars(TrapHandler)

(* ------------------ every context switch of the three ----------------- *)

\* Any of the three kernels is booted.
InitSwitch == InitPaths \/ InitEntry

\* The traps and dispatches of the kernel that was booted.
NextSwitch == NextPaths \/ NextEntry

SpecSwitch == InitSwitch /\ [][NextSwitch]_vars

(* ======================= properties of waitpid ======================== *)

\* Positions of the children of task p whose pid matches the argument of
\* waitpid (-1 matches every child).
MatchingChildren(p, pid) ==
    {i \in 1 .. Len(tcb[p].children) : pid = -1 \/ pid = tcb[tcb[p].children[i]].pid}

\* Those of them that are Zombie.
MatchingZombies(p, pid) ==
    {i \in MatchingChildren(p, pid) : tcb[tcb[p].children[i]].task_status = "Zombie"}

\* C1: sys_waitpid returns -1 when no child of the caller matches pid and -2
\* when a child matches but no matching child is Zombie (-1 first); in both
\* cases the children list of the caller is unchanged and nothing is
\* written through the pointer.
C1_WaitpidErrors ==
    [][\A pid \in WaitArgs :
          SysWaitpid(pid) =>
            /\ MatchingChildren(current, pid) = {}
                  => tcb'[current].x10 = -1
            /\ (MatchingChildren(current, pid) # {} /\ MatchingZombies(current, pid) = {})
                  => tcb'[current].x10 = -2
            /\ MatchingZombies(current, pid) = {}
                  => /\ tcb'[current].children = tcb[current].children
                     /\ tcb'[current].wbuf = tcb[current].wbuf
                     /\ live' = live
                     /\ panicked' = NoPanic]_vars

\* A caller with a child has been told -2 and its buffer is untouched.
C1_Witness ==
    \E t \in live :
        /\ tcb[t].x10 = -2
        /\ tcb[t].children # <<>>
        /\ tcb[t].wbuf = Unwritten

\* C2: with a matching Zombie child, sys_waitpid removes exactly the first
\* matching Zombie of the children list, returns its pid and writes through
\* the pointer the exit code that child passed to exit; the other children
\* keep their order.  The code passed to exit is what the Zombie holds
\* until it is reaped.
C2_WaitpidReaps ==
    [][/\ \A pid \in WaitArgs :
            (SysWaitpid(pid) /\ MatchingZombies(current, pid) # {}) =>
                LET kids == tcb[current].children
                    idx == CHOOSE i \in MatchingZombies(current, pid) :
                              \A j \in MatchingZombies(current, pid) : i <= j
                IN /\ tcb'[current].children = RemoveAt(kids, idx)
                   /\ tcb'[current].x10 = tcb[kids[idx]].pid
                   /\ tcb'[current].wbuf = tcb[kids[idx]].exit_code
                   /\ panicked' = NoPanic
       /\ \A code \in ExitCodes :
            (SysExit(code) /\ panicked' = NoPanic) =>
                /\ tcb'[current].task_status = "Zombie"
                /\ tcb'[current].exit_code = code
       /\ \A t \in live :
            (tcb[t].task_status = "Zombie" /\ tcb'[t].task_status = "Zombie")
                => tcb'[t].exit_code = tcb[t].exit_code]_vars

\* A parent has reaped a child that exited with 7 and still has another child.
C2_Witness ==
    \E t \in live :
        /\ tcb[t].wbuf = 7
        /\ tcb[t].x10 >= 1
        /\ Len(tcb[t].children) = 1
        /\ current = t

(* ================== properties of the TCB references ================== *)

\* Entries of children lists that refer to task t.
ChildrenEntries(t) ==
    {<<p, i>> \in live \X (1 .. MaxTasks) :
        i <= Len(tcb[p].children) /\ tcb[p].children[i] = t}

\* C3: the assertion of sys_waitpid never fails: a Zombie is owned by one
\* reference only, an entry of the children list of the task its parent
\* field names, and neither by the ready queue, the current slot nor a
\* kernel stack.
C3_ZombieSingleOwner ==
    /\ panicked # "assertion failed"
    /\ \A t \in live :
        tcb[t].task_status = "Zombie" =>
            /\ Cardinality(ChildrenEntries(t)) = 1
            /\ \A e \in ChildrenEntries(t) : e[1] = tcb[t].parent
            /\ SeqCount(ready_queue, t) = 0
            /\ current # t
            /\ tcb[t].kframe.kind # "spawn"
            /\ StrongCount(t) = 1

\* A Zombie handed over to INITPROC by the exit of the task that forked it,
\* next to a reap that went through.
C3_Witness ==
    \E t \in live, z \in live :
        /\ tcb[t].wbuf # Unwritten
        /\ tcb[z].task_status = "Zombie"
        /\ tcb[z].parent = INITPROC
        /\ tcb[z].pid = 2

\* C4: a task is in at most one of the ready queue (once), the current slot
\* and the Zombie state; ready queue and current slot hold live TCBs only.
C4_OnePlace ==
    /\ \A t \in Slots :
        SeqCount(ready_queue, t)
        + (IF current = t THEN 1 ELSE 0)
        + (IF tcb[t].task_status = "Zombie" THEN 1 ELSE 0) <= 1
    /\ \A i \in 1 .. Len(ready_queue) : ready_queue[i] \in live
    /\ current \in live \cup {None}

\* The three places are taken by three tasks at once.
C4_Witness ==
    /\ current # None
    /\ ready_queue # <<>>
    /\ \E z \in live : tcb[z].task_status = "Zombie"

(* ===================== properties of the scheduler ==================== *)

\* Pass a is strictly less than pass b under the wrap-safe comparison: b is
\* ahead of a by at most BIG_STRIDE / 2.
WrapLess(a, b) ==
    LET d == (b - a) % PassMod IN d > 0 /\ d <= BIG_STRIDE \div 2

\* C5: for every non-empty ready queue fetch removes the task with the
\* smallest pass under the wrap-safe comparison: no task left in the queue
\* has a pass strictly less than the pass the returned task had.
C5_FetchMin ==
    [][RunTasks(MaxTime) =>
          \A i \in 1 .. Len(ready_queue') :
              ~WrapLess(tcb[ready_queue'[i]].pass, tcb[current'].pass)]_vars

\* C6: an iteration of run_tasks that finds a task sets its status to
\* Running, records task_first_time only when it is still zero, advances
\* its pass by its current stride (wrapping) and puts it in the current
\* slot; the pass, stride and status of every other task are unchanged.
C6_RunTasksStep ==
    [][RunTasks(MaxTime) =>
          LET task == current'
          IN /\ task \in {ready_queue[i] : i \in 1 .. Len(ready_queue)}
             /\ tcb'[task].task_status = "Running"
             /\ tcb'[task].task_first_time =
                    IF tcb[task].task_first_time = 0 THEN time'
                    ELSE tcb[task].task_first_time
             /\ tcb'[task].pass = (tcb[task].pass + tcb[task].stride) % PassMod
             /\ tcb'[task].stride = tcb[task].stride
             /\ \A o \in live \ {task} :
                    /\ tcb'[o].pass = tcb[o].pass
                    /\ tcb'[o].stride = tcb[o].stride
                    /\ tcb'[o].task_status = tcb[o].task_status]_vars

\* A task that set priority 3 has been dispatched again: it keeps the time
\* of its first dispatch and its pass went on by the new stride.
C6_Witness ==
    /\ current # None
    /\ tcb[current].task_first_time # 0
    /\ tcb[current].task_first_time < time
    /\ tcb[current].stride = BIG_STRIDE \div 3
    /\ tcb[current].pass > tcb[current].stride
    /\ Cardinality(live) = 2

\* C7: sys_set_priority returns -1 and changes no stride when prio <= 1;
\* for prio > 1 it sets the stride of the caller alone to BIG_STRIDE / prio
\* rounded down, leaves its pass and every other task as they were, and
\* returns prio.
C7_SetPriority ==
    [][\A prio \in PrioArgs :
          SysSetPriority(prio) =>
            /\ prio <= 1 =>
                  /\ tcb'[current].x10 = -1
                  /\ \A t \in live : tcb'[t].stride = tcb[t].stride
            /\ prio > 1 =>
                  /\ tcb'[current].x10 = prio
                  /\ tcb'[current].stride * prio <= BIG_STRIDE
                  /\ BIG_STRIDE < (tcb'[current].stride + 1) * prio
            /\ tcb'[current].pass = tcb[current].pass
            /\ \A t \in Slots \ {current} : tcb'[t] = tcb[t]
            /\ UNCHANGED <<live, ready_queue, current>>]_vars

\* The caller was answered 3 and has stride BIG_STRIDE / 3 next to a task
\* that keeps the default stride.
C7_Witness ==
    /\ current # None
    /\ tcb[current].x10 = 3
    /\ tcb[current].stride = 5
    /\ \E t \in live \ {current} : tcb[t].stride = BIG_STRIDE \div 16

(* ================= properties of the stride scheduling ================ *)

\* |a|
Abs(a) == IF a < 0 THEN 0 - a ELSE a

\* The stride of a task is BIG_STRIDE / priority, so dispatches * stride is
\* BIG_STRIDE * dispatches / priority up to rounding.
Service(t) == disp[t] * tcb[t].stride

\* C8: over a window in which the tasks and their priorities are fixed, the
\* dispatches of two runnable tasks divided by their priorities differ by
\* at most one.
C8_StrideFair ==
    \A a, b \in live : Abs(Service(a) - Service(b)) <= BIG_STRIDE
(* ================== properties of the address spaces ================== *)

\* No virtual page belongs to two areas of the MemorySet.
AreasDisjoint(ms) ==
    \A i, j \in 1 .. Len(ms) :
        i # j => (ms[i].start .. ms[i].end - 1) \cap (ms[j].start .. ms[j].end - 1) = {}

\* No address space of either kernel changes in the step.
MemorySetsUnchanged ==
    /\ \A t \in Slots : tcb'[t].memory_set = tcb[t].memory_set
    /\ \A i \in DOMAIN tasks : tasks'[i].memory_set = tasks[i].memory_set

\* The result the caller of the last system call finds in x[10].
CallerX10 == IF kernel = "os5" THEN tcb[current].x10 ELSE tasks[current_task].x10

\* The MemorySet of the caller of the last system call.
CallerMemorySet ==
    IF kernel = "os5" THEN tcb[current].memory_set ELSE tasks[current_task].memory_set

\* C9: mmap returns -1 and leaves every address space as it was when start
\* is not a multiple of the page size, when port has a bit above the low
\* three, or when the low three bits of port are all zero (os4 and os5).
C9_MmapRejects ==
    [][last_call'.id = SYSCALL_MMAP =>
          LET start == last_call'.args[1]
              port == last_call'.args[3]
          IN (start % PAGE_SIZE # 0 \/ port >= 8 \/ port % 8 = 0) =>
                CallerX10' = -1 /\ MemorySetsUnchanged]_vars

\* A task of os4 that had mapped an area asked for a page with R and a
\* reserved bit, was answered -1 and still has the area.
C9_Witness ==
    /\ last_call.id = SYSCALL_MMAP
    /\ last_call.args[3] = 9
    /\ aligned(last_call.args[1])
    /\ Os4Running
    /\ tasks[current_task].x10 = -1
    /\ Len(tasks[current_task].memory_set) = 2

\* The virtual pages of [start, start + len).
RangeVpns(start, len) == (start \div PAGE_SIZE) .. ((start + len + PAGE_SIZE - 1) \div PAGE_SIZE - 1)

\* What a call of mmap with arguments that pass the checks of C9 does to
\* the MemorySet ms of the caller, ms2 afterwards, with result ret: refused
\* as a whole when a page of the range is mapped, and else, when
\* `nonempty` holds, mapped as a whole.
MmapOutcome(ms, ms2, ret, start, len, nonempty) ==
    IF RangeVpns(start, len) \cap MappedVpns(ms) # {}
    THEN ret = -1 /\ ms2 = ms
    ELSE nonempty =>
            /\ ret = 0
            /\ MappedVpns(ms2) = MappedVpns(ms) \cup RangeVpns(start, len)

\* A step of mmap is as MmapOutcome says, for every range or for the
\* ranges of at least one page only (for the empty range the answer is
\* then -1 and nothing is mapped), and the areas are disjoint after every
\* step.
MmapAtomic(every) ==
    /\ last_call'.id = SYSCALL_MMAP =>
          LET start == last_call'.args[1]
              len == last_call'.args[2]
              port == last_call'.args[3]
          IN (start % PAGE_SIZE = 0 /\ port \in 1 .. 7) =>
                /\ MmapOutcome(CallerMemorySet, CallerMemorySet', CallerX10',
                               start, len, every \/ len > 0)
                /\ (len = 0 /\ ~every) => CallerX10' = -1 /\ MemorySetsUnchanged
                /\ \A t \in Slots \ {current} : tcb'[t].memory_set = tcb[t].memory_set
    /\ \A t \in Slots : AreasDisjoint(tcb'[t].memory_set)
    /\ \A i \in DOMAIN tasks : AreasDisjoint(tasks'[i].memory_set)

\* C10 as stated: if a page of [start, start + len) is mapped, mmap returns
\* -1 and maps nothing; otherwise every page of the range becomes mapped
\* and mmap returns 0; after any calls of mmap and munmap no page belongs
\* to two areas.
C10_MmapAtomic_Stated == [][MmapAtomic(TRUE)]_vars

\* C10, amended: the same for a range of at least one page; for len = 0
\* mmap returns -1 and maps nothing.
C10_MmapAtomic == [][MmapAtomic(FALSE)]_vars

\* A task that holds the two pages from MmBase asked for the two pages from
\* MmBase + PAGE_SIZE, was answered -1, and the second of them is not
\* mapped.
C10_Witness ==
    /\ last_call = [id |-> SYSCALL_MMAP, args |-> <<MmBase + PAGE_SIZE, PAGE_SIZE + 1, 3>>]
    /\ current # None
    /\ tcb[current].x10 = -1
    /\ floor(MmBase) + 1 \in MappedVpns(tcb[current].memory_set)
    /\ floor(MmBase) + 2 \notin MappedVpns(tcb[current].memory_set)

\* C11: munmap returns -1 and changes no address space when start is not
\* a multiple of the page size or when a page of [start, start + len) is
\* not mapped; otherwise it returns 0 and exactly the pages of the range
\* are no longer mapped (os4 and os5).
C11_Munmap ==
    [][last_call'.id = SYSCALL_MUNMAP =>
          LET start == last_call'.args[1]
              len == last_call'.args[2]
          IN IF \/ start % PAGE_SIZE # 0
                \/ ~(RangeVpns(start, len) \subseteq MappedVpns(CallerMemorySet))
             THEN CallerX10' = -1 /\ MemorySetsUnchanged
             ELSE /\ CallerX10' = 0
                  /\ MappedVpns(CallerMemorySet') =
                        MappedVpns(CallerMemorySet) \ RangeVpns(start, len)
                  /\ \A t \in Slots \ {current} : tcb'[t].memory_set = tcb[t].memory_set]_vars

\* A task that holds the page at MmBase but not the next one asked to
\* unmap both, was answered -1 and still holds the page.
C11_Witness ==
    /\ last_call = [id |-> SYSCALL_MUNMAP, args |-> <<MmBase, PAGE_SIZE + 1>>]
    /\ current # None
    /\ tcb[current].x10 = -1
    /\ floor(MmBase) \in MappedVpns(tcb[current].memory_set)
    /\ floor(MmBase) + 1 \notin MappedVpns(tcb[current].memory_set)

\* The last system call was `id` with the arguments args and returned 0.
Succeeded(id, args) ==
    /\ last_call.id = id
    /\ last_call.args = args
    /\ CallerX10 = 0

\* What mmap and munmap of the booted kernel answer the caller of the last
\* system call if they are called next.
CallerMmap(start, len, port) ==
    IF kernel = "os5" THEN mmap(CallerMemorySet, start, len, port)
    ELSE TaskManager_mmap(CallerMemorySet, start, len, port)

CallerMunmap(start, len) ==
    IF kernel = "os5" THEN munmap(CallerMemorySet, start, len)
    ELSE TaskManager_mnumap(CallerMemorySet, start, len)

\* A successful mmap maps exactly its range, none of which was mapped.
MmapMapsFreshRange ==
    (last_call'.id = SYSCALL_MMAP /\ CallerX10' = 0) =>
        LET r == RangeVpns(last_call'.args[1], last_call'.args[2])
        IN /\ r \cap MappedVpns(CallerMemorySet) = {}
           /\ MappedVpns(CallerMemorySet') = MappedVpns(CallerMemorySet) \cup r

\* Right after a successful mmap, a munmap of the same range returns 0 and
\* takes exactly the range away again, and a second mmap of the range
\* returns -1; right after a successful munmap a second munmap of the
\* range returns -1, for every range or for the ranges of at least one
\* page only.
MmapRoundTrip(every) ==
    /\ \A start \in MmapStarts, len \in MmapLens, port \in MmapPorts :
          Succeeded(SYSCALL_MMAP, <<start, len, port>>) =>
             /\ CallerMunmap(start, len).ret = 0
             /\ MappedVpns(CallerMunmap(start, len).memory_set) =
                   MappedVpns(CallerMemorySet) \ RangeVpns(start, len)
             /\ CallerMmap(start, len, port).ret = -1
    /\ \A start \in MunmapStarts, len \in MmapLens :
          (Succeeded(SYSCALL_MUNMAP, <<start, len>>) /\ (every \/ len > 0)) =>
             CallerMunmap(start, len).ret = -1

\* C12 as stated: a successful mmap(a, l, p) followed by munmap(a, l)
\* returns 0 and restores the mapped pages; a repeated successful mmap
\* returns -1 and a repeated successful munmap returns -1.
C12_RoundTrip_Stated == []MmapRoundTrip(TRUE) /\ [][MmapMapsFreshRange]_vars

\* C12, amended: the repeated munmap returns -1 when the range holds at
\* least one page.
C12_RoundTrip == []MmapRoundTrip(FALSE) /\ [][MmapMapsFreshRange]_vars

\* A task of os4 mapped the two pages from MmBase and unmapped them again:
\* it was answered 0 and holds the areas it was loaded with.
C12_Witness ==
    /\ last_call = [id |-> SYSCALL_MUNMAP, args |-> <<MmBase, PAGE_SIZE + 1>>]
    /\ Os4Running
    /\ tasks[current_task].x10 = 0
    /\ tasks[current_task].memory_set = from_elf

(* ===================== properties of the lifecycle ==================== *)

\* C13: when exit_current_and_run_next(code) of a task T has completed, T
\* is a Zombie with exit_code = code and no children, every former child
\* of T has INITPROC as parent and stands exactly once in the children of
\* INITPROC, behind those INITPROC had, the current slot is empty and T
\* is not in the ready queue; a Zombie stays a Zombie with its exit code
\* until a waitpid reaps it.
C13_Exit ==
    [][/\ \A code \in ExitCodes :
            (SysExit(code) /\ panicked' = NoPanic) =>
                LET T == current
                    kids == tcb[T].children
                IN /\ T \in live'
                   /\ tcb'[T].task_status = "Zombie"
                   /\ tcb'[T].exit_code = code
                   /\ tcb'[T].children = <<>>
                   /\ \A i \in 1 .. Len(kids) :
                         /\ tcb'[kids[i]].parent = INITPROC
                         /\ SeqCount(tcb'[INITPROC].children, kids[i]) = 1
                   /\ tcb'[INITPROC].children = tcb[INITPROC].children \o kids
                   /\ current' = None
                   /\ SeqCount(ready_queue', T) = 0
       /\ \A t \in live :
            tcb[t].task_status = "Zombie" =>
                IF t \in live'
                THEN /\ tcb'[t].task_status = "Zombie"
                     /\ tcb'[t].exit_code = tcb[t].exit_code
                ELSE /\ current # None
                     /\ SeqCount(tcb[current].children, t) = 1
                     /\ tcb'[current].x10 = tcb[t].pid]_vars

\* A task with a child has exited with 7: it is a childless Zombie, and
\* INITPROC has adopted the child behind its own.
C13_Witness ==
    \E T \in live \ {INITPROC} : \E c \in live \ {INITPROC, T} :
        /\ tcb[T].task_status = "Zombie"
        /\ tcb[T].exit_code = 7
        /\ tcb[T].children = <<>>
        /\ tcb[c].parent = INITPROC
        /\ tcb[INITPROC].children = <<T, c>>
        /\ current = None

\* C14: every task stands in at most one children list and at most once
\* in it, and the parent field of every unreaped task other than INITPROC
\* upgrades to an unreaped task: no parent is dropped while a task names
\* it.
C14_ChildrenAndParents ==
    /\ \A t \in Slots : Cardinality(ChildrenEntries(t)) <= 1
    /\ tcb[INITPROC].parent = None
    /\ \A t \in live \ {INITPROC} : tcb[t].parent \in live

\* A task adopted by INITPROC whose first parent has been reaped since.
C14_Witness ==
    \E c \in live \ {INITPROC} :
        /\ tcb[c].pid = 2
        /\ tcb[c].parent = INITPROC
        /\ ChildrenEntries(c) = {<<INITPROC, 1>>}
        /\ \A t \in live : tcb[t].pid # 1

(* ================= properties of fork, exec and spawn ================= *)

\* The saved sepc of a trap context stands behind an ecall.
PastEcall(cx) == \E site \in EcallSites : cx.sepc = site + 4

\* C15: sys_fork creates one child whose trap context is the copy of the
\* caller's at the call, sepc advanced past the ecall, except for x[10] = 0
\* and kernel_sp, the top of the child's own kernel stack; the child is
\* Ready, names the caller as parent and is appended to the children of
\* the caller and to the ready queue; the caller stays current and
\* receives the pid of the child, which is not its own.
C15_Fork ==
    [][SysFork =>
         \E child \in Slots \ live :
            /\ live' = live \cup {child}
            /\ PastEcall(trap_cx'[current])
            /\ trap_cx'[child].sepc = trap_cx'[current].sepc
            /\ trap_cx'[current].kernel_sp = trap_cx[current].kernel_sp
            /\ trap_cx'[child].kernel_sp = get_top(tcb'[child].pid)
            /\ trap_cx'[child].kernel_sp # trap_cx'[current].kernel_sp
            /\ tcb'[child].x10 = 0
            /\ tcb'[child].memory_set = tcb[current].memory_set
            /\ tcb'[child].wbuf = tcb[current].wbuf
            /\ tcb'[child].task_status = "Ready"
            /\ tcb'[child].parent = current
            /\ tcb'[current].children = Append(tcb[current].children, child)
            /\ ready_queue' = Append(ready_queue, child)
            /\ current' = current
            /\ tcb'[current].task_status = "Running"
            /\ tcb'[current].x10 = tcb'[child].pid
            /\ tcb'[child].pid # tcb[current].pid]_vars

\* INITPROC with a page mapped has forked from the ecall at 8: the child
\* is to resume at 12 on its own kernel stack with the same address space.
C15_Witness ==
    \E child \in live \ {INITPROC} :
        /\ current = INITPROC
        /\ tcb[INITPROC].x10 = tcb[child].pid
        /\ tcb[child].x10 = 0
        /\ tcb[child].task_first_time = 0
        /\ tcb[child].memory_set = tcb[INITPROC].memory_set
        /\ tcb[child].memory_set # from_elf
        /\ trap_cx[INITPROC].sepc = 12
        /\ trap_cx[child].sepc = 12
        /\ trap_cx[child].kernel_sp = get_top(tcb[child].pid)
        /\ ready_queue = <<child>>

\* The fields of a TCB that exec leaves alone.
KeptByExec(t) ==
    <<t.pid, t.parent, t.children, t.task_status, t.exit_code,
      t.task_first_time, t.stride, t.pass, t.kframe>>

\* C16: exec replaces the address space and the trap context of the
\* caller only: pid, kernel stack, parent, children, status, stride, pass
\* and task_first_time are kept, the caller stays current and sys_exec
\* returns 0; with an unknown name sys_exec returns -1 and changes
\* nothing.
C16_Exec ==
    [][/\ SysExec =>
            /\ current' = current
            /\ tcb'[current].x10 = 0
            /\ tcb'[current].memory_set = from_elf
            /\ trap_cx'[current] = app_init_context(entry_point, trap_cx[current].kernel_sp)
            /\ trap_cx'[current].kernel_sp = get_top(tcb'[current].pid)
            /\ KeptByExec(tcb'[current]) = KeptByExec(tcb[current])
            /\ \A s \in Slots \ {current} : tcb'[s] = tcb[s] /\ trap_cx'[s] = trap_cx[s]
            /\ UNCHANGED <<live, ready_queue, pid_current, pid_recycled, panicked>>
       /\ SysExecUnknown =>
            /\ current' = current
            /\ tcb'[current].x10 = -1
            /\ tcb' = [tcb EXCEPT ![current] = [@ EXCEPT !.x10 = -1]]
            /\ PastEcall(trap_cx'[current])
            /\ trap_cx'[current].kernel_sp = trap_cx[current].kernel_sp
            /\ \A s \in Slots \ {current} : trap_cx'[s] = trap_cx[s]
            /\ UNCHANGED <<live, ready_queue, pid_current, pid_recycled, panicked>>]_vars

\* INITPROC, which mapped a page and forked a child, has called exec: it
\* is to start at the entry point in a new address space, and is still
\* the running parent of its child.
C16_Witness ==
    /\ current = INITPROC
    /\ tcb[INITPROC].task_status = "Running"
    /\ tcb[INITPROC].children # <<>>
    /\ tcb[INITPROC].pass # 0
    /\ tcb[INITPROC].memory_set = from_elf
    /\ tcb[INITPROC].x10 = 0
    /\ trap_cx[INITPROC].sepc = entry_point
    /\ \E c \in live \ {INITPROC} : tcb[c].memory_set # from_elf

\* C17: sys_spawn with a known name creates a child with a fresh trap
\* context, links it to the caller, enqueues it and then suspends the
\* caller: the child stands right ahead of the caller at the tail of the
\* ready queue, the caller is Ready and the current slot empty; the
\* caller finds the pid of the child in x[10] when it is dispatched again.
\* With an unknown name sys_spawn returns -1: no task, no pid, no
\* suspension.
C17_Spawn ==
    [][/\ SysSpawn =>
            \E child \in Slots \ live :
               /\ live' = live \cup {child}
               /\ trap_cx'[child] = app_init_context(entry_point, get_top(tcb'[child].pid))
               /\ trap_cx'[child].sepc # trap_cx'[current].sepc
               /\ trap_cx'[child].kernel_sp # trap_cx'[current].kernel_sp
               /\ tcb'[child].x10 = 0
               /\ tcb'[child].memory_set = from_elf
               /\ tcb'[child].wbuf = Unwritten
               /\ tcb'[child].task_status = "Ready"
               /\ tcb'[child].parent = current
               /\ tcb'[current].children = Append(tcb[current].children, child)
               /\ ready_queue' = ready_queue \o <<child, current>>
               /\ tcb'[current].task_status = "Ready"
               /\ current' = None
               /\ tcb'[current].kframe = [kind |-> "spawn", ret |-> tcb'[child].pid]
               /\ tcb'[current].x10 = tcb[current].x10
       /\ \A t \in live :
            tcb[t].kframe.kind = "spawn" =>
               \/ tcb'[t].kframe = tcb[t].kframe /\ current' # t
               \/ /\ current = None
                  /\ current' = t
                  /\ tcb'[t].x10 = tcb[t].kframe.ret
       /\ SysSpawnUnknown =>
            /\ tcb'[current].x10 = -1
            /\ tcb'[current].task_status = "Running"
            /\ current' = current
            /\ UNCHANGED <<live, ready_queue, pid_current, pid_recycled>>]_vars

\* INITPROC, with a page mapped, runs again after its spawn and after the
\* child ran: x[10] is the pid of the child, which started in an address
\* space of its own.
C17_Witness ==
    \E child \in live \ {INITPROC} :
        /\ current = INITPROC
        /\ tcb[INITPROC].kframe = NoFrame
        /\ tcb[INITPROC].x10 = tcb[child].pid
        /\ tcb[INITPROC].memory_set # from_elf
        /\ tcb[child].parent = INITPROC
        /\ tcb[child].memory_set = from_elf
        /\ tcb[child].task_first_time # 0
        /\ tcb[child].task_status = "Ready"

(* ========================= properties of pids ========================= *)

\* The pid p can be handed out by the next pid_alloc or a later one.
PidAvailable(p) == p >= pid_current \/ SeqCount(pid_recycled, p) > 0

\* No two unreaped tasks have the same pid, and no pid of an unreaped task
\* is available.
PidsDistinct ==
    /\ \A t, u \in live : tcb[t].pid = tcb[u].pid => t = u
    /\ \A t \in live : ~ PidAvailable(tcb[t].pid)
    /\ \A i, j \in 1 .. Len(pid_recycled) : pid_recycled[i] = pid_recycled[j] => i = j

\* A pid is recycled by the sys_waitpid that reaps the Zombie child that
\* had it, and by nothing else.
PidsRecycledByWaitpid ==
    \/ pid_recycled' = pid_recycled
    \/ pid_recycled' = PidAllocRecycled /\ live' # live /\ live \subseteq live'
    \/ \E child \in live \ live' :
          /\ live' = live \ {child}
          /\ pid_recycled' = Append(pid_recycled, tcb[child].pid)
          /\ tcb[child].task_status = "Zombie"
          /\ current # None
          /\ current' = current
          /\ SeqCount(tcb[current].children, child) = 1
          /\ SeqCount(tcb'[current].children, child) = 0
          /\ tcb'[current].x10 = tcb[child].pid

\* C18: after any fork, spawn, exec, exit and waitpid no two unreaped tasks
\* share a pid, and a pid becomes available again only when sys_waitpid
\* has reaped the task that held it.
C18_Pids == []PidsDistinct /\ [][PidsRecycledByWaitpid]_vars

\* Two pids were ever taken from the counter, INITPROC has reaped a child,
\* and a child of INITPROC lives under the recycled pid 1.
C18_Witness ==
    /\ pid_current = 2
    /\ pid_recycled = <<>>
    /\ tcb[INITPROC].wbuf # Unwritten
    /\ \E c \in live \ {INITPROC} : tcb[c].pid = 1 /\ tcb[c].parent = INITPROC

(* ================ properties of the system call counters ============== *)

\* The task in user mode, of either kernel.
Caller == IF kernel = "os5" THEN current ELSE current_task

\* The tasks that are there before and after the step.
Staying == IF kernel = "os5" THEN live \cap live' ELSE DOMAIN tasks

\* C19: every system call with an id below 500 adds one to the counter of
\* its id of the task that is current when it is entered, also when the
\* handler suspends or ends the task or panics, and changes no other
\* counter of any task; a TaskInfo holds the counters with the
\* sys_task_info call that wrote it counted; a new task starts with every
\* counter 0, and a call with another id and a step that is no system
\* call change no counter.
C19_SyscallTimes ==
    [][IF last_call' # NoCall
       THEN /\ \A s \in Staying, id \in CountedIds :
                 syscall_times'[s][id] =
                     syscall_times[s][id]
                     + (IF s = Caller /\ id = last_call'.id /\ id < 500 THEN 1 ELSE 0)
            /\ \A s \in live' \ live : syscall_times'[s] = NoTimes
            /\ task_info' # task_info =>
                 /\ last_call'.id = SYSCALL_TASK_INFO
                 /\ task_info'.task = Caller
                 /\ task_info'.syscall_times = syscall_times'[Caller]
                 /\ task_info'.syscall_times[SYSCALL_TASK_INFO] =
                        syscall_times[Caller][SYSCALL_TASK_INFO] + 1
       ELSE UNCHANGED <<syscall_times, task_info>>]_vars

\* os4: the first task has yielded and the second, which ran next, has
\* asked for its TaskInfo: the yield is on the first, the report counts
\* its own call and nothing else.
C19_Witness ==
    /\ kernel = "os4"
    /\ syscall_times[1][SYSCALL_YIELD] = 1
    /\ syscall_times[2][SYSCALL_YIELD] = 0
    /\ task_info.task = 2
    /\ task_info.syscall_times = [NoTimes EXCEPT ![SYSCALL_TASK_INFO] = 1]

\* sys_task_info does not panic and reports the status Running and the
\* milliseconds from the first dispatch of the caller to the call.
TaskInfoTime ==
    (last_call' # NoCall /\ last_call'.id = SYSCALL_TASK_INFO) =>
        /\ panicked' = NoPanic
        /\ task_info'.task = Caller
        /\ task_info'.status = "Running"
        /\ task_info'.time = time \div 1000 - first_dispatch[Caller] \div 1000

\* C20: sys_task_info reports the status Running and a time equal to the
\* milliseconds between the first dispatch of the calling task and the
\* call; the subtraction does not underflow.
C20_TaskInfoTime == [][TaskInfoTime]_vars

\* The same of the os4 image alone, where task_first_time is stored in
\* milliseconds.
TaskInfoTimeOs4 == [][kernel = "os4" => TaskInfoTime]_vars

(* ===================== properties of sys_get_time ===================== *)

\* TimeVal a is not later than TimeVal b.
LexLeq(a, b) == a.sec < b.sec \/ (a.sec = b.sec /\ a.usec <= b.usec)

SpecFaults ==
    {"StoreFault", "LoadFault", "StorePageFault", "LoadPageFault", "IllegalInstruction"}

\* trap_handler ends the current task alone on a cause of `faults`, without
\* a panic when another task is Ready, which then runs; "Unsupported trap"
\* is the panic of the other causes that are neither the system call nor
\* the timer.
FaultsEndTask(faults) ==
    TrapHandler =>
        /\ scause \in faults =>
              /\ tasks'[current_task].task_status = "Exited"
              /\ panicked' # "Unsupported trap"
              /\ \A i \in DOMAIN tasks \ {current_task} :
                    tasks'[i].task_status = "Exited" => tasks[i].task_status = "Exited"
              /\ (\E i \in DOMAIN tasks : tasks[i].task_status = "Ready") =>
                    /\ panicked' = NoPanic
                    /\ current_task' # current_task
                    /\ tasks[current_task'].task_status = "Ready"
                    /\ tasks'[current_task'].task_status = "Running"
        /\ panicked' = "Unsupported trap" =>
              scause \notin faults \cup {"UserEnvCall", "SupervisorTimer"}

\* C22: a store fault, load fault, store page fault, load page fault or
\* illegal instruction from user mode ends the current task only: the
\* kernel does not panic and runs another ready task; only the causes that
\* are none of these, nor the system call nor the timer, reach the panic of
\* trap_handler.
C22_Faults == [][FaultsEndTask(SpecFaults)]_vars

\* The same of the causes trap_handler has an arm for.
FaultsOfArms == [][FaultsEndTask(KillingCauses(kernel))]_vars

(* ===================== properties of the trap entry =================== *)

\* The panics of a trap taken in kernel mode.
KernelTrapPanics == {"a trap from kernel!", "__alltraps entered from the kernel"}

\* A step of trap_handler on a user environment call.
EnvCallStep ==
    /\ mode = "kernel"
    /\ scause = "UserEnvCall"
    /\ panicked = NoPanic
    /\ panicked' \notin KernelTrapPanics

\* What a system call that returns at once puts in x[10] of the caller.
ResultOf(call, t) ==
    IF call.id = SYSCALL_YIELD THEN 0
    ELSE IF call.id = SYSCALL_SET_PRIORITY THEN -1
    ELSE TaskManager_mmap(tasks[t].memory_set, call.args[1], call.args[2], call.args[3]).ret

\* C28: on a user environment call trap_handler adds 4 to the saved sepc of
\* the calling task, once and to no other task's; the dispatcher gets
\* x[17] as the id and x[10], x[11], x[12] as the arguments; the result
\* goes to x[10] of the task that made the call: at once when the task
\* goes on, and when it was suspended in the call at the time it is
\* resumed, whichever task's trap resumes it; no step writes x[10] of a
\* task that does not return to user mode in that step.
C28_EnvCall ==
    /\ [][EnvCallStep =>
            LET cx == current_task
            IN /\ trap_cx[cx].sepc \in EcallSites
               /\ trap_cx'[cx].sepc = trap_cx[cx].sepc + 4
               /\ \A t \in 1..Len(tasks) : t # cx => trap_cx'[t] = trap_cx[t]
               /\ last_call' = [id |-> uregs[cx].x17,
                                args |-> <<tasks[cx].x10, uregs[cx].x11, uregs[cx].x12>>]
               /\ (mode' = "user" /\ current_task' = cx)
                     => tasks'[cx].x10 = ResultOf(last_call', cx)
               /\ (panicked' = NoPanic /\ current_task' # cx
                   /\ last_call'.id = SYSCALL_YIELD)
                     => /\ kstack'[cx] = [kind |-> "syscall", ret |-> 0, cx |-> cx]
                        /\ tasks'[cx].x10 = tasks[cx].x10]_vars
    /\ [][(mode = "kernel" /\ mode' = "user") =>
            LET next == current_task'
            IN /\ \A t \in 1..Len(tasks) : t # next => tasks'[t].x10 = tasks[t].x10
               /\ (next # current_task /\ kstack[next].kind = "syscall")
                     => /\ kstack[next].cx = next
                        /\ tasks'[next].x10 = kstack[next].ret
                        /\ trap_cx'[next] = trap_cx[next]]_vars

\* A task is back in user mode behind its yield with 0 in x[10] (it passed
\* 5), after the other task ran and exited.
C28_Witness ==
    /\ mode = "user"
    /\ uregs[current_task].x17 = SYSCALL_YIELD
    /\ tasks[current_task].x10 = 0
    /\ trap_cx[current_task].sepc \in {EcallSepc(site) : site \in EcallSites}
    /\ last_call.id = SYSCALL_EXIT
    /\ \E t \in 1..Len(tasks) : t # current_task /\ tasks[t].task_status = "Exited"

\* C29: in os4 stvec is the TRAMPOLINE whenever a task is in user mode,
\* the first time a task runs included, and trap_from_kernel from the
\* start of trap_handler to the next trap_return, so that a trap taken in
\* between panics with "a trap from kernel!".
C29_Stvec ==
    /\ [](kernel = "os4" =>
            /\ mode = "user" => stvec = "TRAMPOLINE"
            /\ mode = "kernel" => stvec = "trap_from_kernel")
    /\ [][(kernel = "os4" /\ mode = "kernel" /\ panicked = NoPanic
           /\ panicked' \in KernelTrapPanics)
            => panicked' = "a trap from kernel!"]_vars

\* The second task of os4, in user mode for the first time through
\* trap_return, trapped, and the kernel trapped while it handled that.
C29_Witness ==
    /\ kernel = "os4"
    /\ current_task = 2
    /\ tasks[1].task_status = "Ready"
    /\ mode = "kernel"
    /\ panicked = "a trap from kernel!"

(* ===================== properties of the ready queue ================== *)

\* The tasks of the ready queue q.
Queued(q) == {q[i] : i \in 1 .. Len(q)}

\* The passes of the tasks of q lie within BIG_STRIDE / 2 ahead of that of
\* the task b, counted modulo 2^64.
WithinHalf(q, t, b) ==
    \A s \in Queued(q) : (t[s].pass - t[b].pass) % PassMod <= BIG_STRIDE \div 2

\* The tasks with the pass of b subtracted from every pass.
Rebased(t, b) ==
    [s \in Slots |-> [t[s] EXCEPT !.pass = (@ - t[b].pass) % PassMod]]

\* C25: when the passes of the ready queue lie within BIG_STRIDE / 2 of
\* each other modulo 2^64, run_tasks dispatches the task fetch would choose
\* with the pass of the hindmost task subtracted from every pass.
C25_Wraparound ==
    [][(current = None /\ current' # None)
         => \A b \in Queued(ready_queue) :
               WithinHalf(ready_queue, tcb, b)
                  => current' = ready_queue[FetchIdx(ready_queue, Rebased(tcb, b))]]_vars

\* C30: fetch on the empty queue is None and the queue stays empty; on
\* another queue it removes one entry, which becomes the current task, and
\* the others keep their order; among tasks of equal pass it removes the
\* head.
C30_FetchQueue ==
    [][(current = None /\ time' # time) =>
          LET q == ready_queue
          IN IF q = <<>>
             THEN current' = None /\ ready_queue' = <<>>
             ELSE /\ Len(ready_queue') = Len(q) - 1
                  /\ \E i \in 1 .. Len(q) :
                        /\ current' = q[i]
                        /\ \A j \in 1 .. Len(q) - 1 :
                              ready_queue'[j] = IF j < i THEN q[j] ELSE q[j + 1]
                  /\ (\A s \in Queued(q) : tcb[s].pass = tcb[q[1]].pass)
                        => current' = q[1] /\ ready_queue' = Tail(q)]_vars

\* Three tasks of equal pass came from the queue head first, with the timer
\* putting each back at the tail, and the first of them runs again.
C30_Witness ==
    /\ current # None
    /\ Len(ready_queue) = 2
    /\ time = 5
    /\ \A s \in Queued(ready_queue) : tcb[s].pass = tcb[current].pass - tcb[current].stride
    /\ tcb[current].pass = 2 * tcb[current].stride

\* The idle loop went round over the empty queue.
FetchNoneSeen ==
    /\ ready_queue = <<>>
    /\ current = None
    /\ live = {}
    /\ time > 1

(* ==================== properties of the port of mmap ================== *)

\* The ports with bit 0, with bit 1 and with bit 2 among 1..=7.
PortsR == {1, 3, 5, 7}
PortsW == {2, 3, 6, 7}
PortsX == {4, 5, 6, 7}

\* C26: when mmap of os4 or os5 maps a range, the port is one of 1..=7 and
\* the area it inserts has U, has R exactly for the ports with bit 0, W
\* exactly for those with bit 1 and X exactly for those with bit 2, in
\* os4 as in os5.
C26_PortPermission ==
    [][(last_call'.id = SYSCALL_MMAP /\ CallerX10' = 0) =>
          LET port == last_call'.args[3]
              before == CallerMemorySet
              after == CallerMemorySet'
              permission == after[Len(after)].perm
          IN /\ port \in 1 .. 7
             /\ Len(after) = Len(before) + 1
             /\ permission \subseteq {"U", "R", "W", "X"}
             /\ "U" \in permission
             /\ "R" \in permission <=> port \in PortsR
             /\ "W" \in permission <=> port \in PortsW
             /\ "X" \in permission <=> port \in PortsX]_vars

\* The first application of os4 mapped a page with port 6 and holds it
\* with U, W and X, next to a page it mapped with port 1.
C26_Witness ==
    /\ Os4Running
    /\ last_call.id = SYSCALL_MMAP
    /\ last_call.args[3] = 6
    /\ tasks[current_task].x10 = 0
    /\ Len(tasks[current_task].memory_set) = 3
    /\ tasks[current_task].memory_set[2].perm = {"U", "R"}
    /\ tasks[current_task].memory_set[3].perm = {"U", "W", "X"}

(* ================ properties of the creation of tasks ================= *)

\* The fields TaskControlBlock::new, fork and spawn give the task in slot
\* s of t, with the counters c.
AsCreated(t, c, s) ==
    /\ t[s].task_status = "Ready"
    /\ t[s].pass = 0
    /\ t[s].stride = BIG_STRIDE \div 16
    /\ t[s].exit_code = 0
    /\ t[s].task_first_time = 0
    /\ t[s].children = <<>>
    /\ \A id \in CountedIds : c[s][id] = 0

\* C27: INITPROC, made by TaskControlBlock::new, and every task fork or
\* spawn makes is Ready with pass 0, stride BIG_STRIDE / 16, exit code 0,
\* no time of a first dispatch, no children and every counter 0, whatever
\* the stride, the pass and the counters of its parent are.
C27_Created ==
    /\ AsCreated(tcb, syscall_times, INITPROC)
    /\ [][\A s \in live' \ live : AsCreated(tcb', syscall_times', s)]_vars

\* A task that set its priority to 2 and was dispatched again forked a
\* child, its second system call; the child has the fields of a new task.
C27_Witness ==
    \E p \in live, c \in live :
        /\ tcb[c].parent = p
        /\ current = p
        /\ last_call.id = SYSCALL_FORK
        /\ tcb[p].stride = BIG_STRIDE \div 2
        /\ tcb[p].pass > tcb[p].stride
        /\ syscall_times[p][SYSCALL_SET_PRIORITY] > 0
        /\ syscall_times[p][SYSCALL_FORK] > 0
        /\ tcb[c].pass = 0
        /\ tcb[c].stride = BIG_STRIDE \div 16
        /\ AsCreated(tcb, syscall_times, c)

(* ================ properties of suspension and of switches ============ *)

\* The path has a set_next_trigger: the step is a timer interrupt.
TimerPath(ops) == \E i \in 1 .. Len(ops) : ops[i] = SetNextTriggerOp

\* C23: a timer interrupt or sys_yield of os5 leaves the running task Ready
\* at the tail of the ready queue and the current slot empty, and ends in
\* the __switch of schedule to the idle loop; on the timer path
\* set_next_trigger comes first, once, before any step of
\* suspend_current_and_run_next; the idle loop then dispatches a task of
\* the ready queue, the one fetch chooses, and a task suspended in
\* sys_yield finds 0 in x[10] when it is dispatched.
C23_Reenqueue ==
    /\ [][(current # None /\ (last_call'.id = SYSCALL_YIELD \/ TimerPath(kernel_ops'))) =>
            /\ tcb'[current].task_status = "Ready"
            /\ ready_queue' = Append(ready_queue, current)
            /\ current' = None
            /\ kernel_ops'[Len(kernel_ops')] = SwitchOp
            /\ \A i \in 1 .. Len(kernel_ops') - 1 : kernel_ops'[i] # SwitchOp
            /\ TimerPath(kernel_ops') =>
                  /\ last_call' = NoCall
                  /\ kernel_ops'[1] = SetNextTriggerOp
                  /\ \A i \in 2 .. Len(kernel_ops') : kernel_ops'[i] # SetNextTriggerOp]_vars
    /\ [][(kernel = "os5" /\ current = None /\ current' # None) =>
            /\ ready_queue # <<>>
            /\ current' = ready_queue[FetchIdx(ready_queue, tcb)]
            /\ tcb'[current'].task_status = "Running"
            /\ tcb[current'].kframe.kind = "yield" => tcb'[current'].x10 = 0]_vars

\* INITPROC, with the pid of its child in x[10], yielded; the child ran
\* and was preempted by the timer; INITPROC runs again with 0 in x[10].
C23_Witness ==
    /\ kernel = "os5"
    /\ current = INITPROC
    /\ tcb[INITPROC].x10 = 0
    /\ tcb[INITPROC].children # <<>>
    /\ last_call = NoCall
    /\ Len(ready_queue) = 1
    /\ tcb[ready_queue[1]].kframe.kind = "timer"
    /\ tcb[ready_queue[1]].parent = INITPROC
    /\ kernel_ops # <<>>
    /\ kernel_ops[Len(kernel_ops)] = SwitchOp

\* The cells whose RefMut is alive behind the first n steps of the path.
RECURSIVE Held(_, _)
Held(ops, n) ==
    IF n = 0 THEN {}
    ELSE LET before == Held(ops, n - 1)
             cell == <<ops[n].cell, ops[n].task>>
         IN IF ops[n].op = "borrow" THEN before \cup {cell}
            ELSE IF ops[n].op = "drop" THEN before \ {cell}
            ELSE before

\* C24: at every __switch of the path of a dispatch or trap (run_tasks,
\* schedule under suspend_current_and_run_next and
\* exit_current_and_run_next in os5, run_next_task and run_first_task in
\* os3 and os4) no RefMut of PROCESSOR, of TASK_MANAGER or of the inner
\* cell of a task is alive.
C24_NoBorrowAtSwitch ==
    \A i \in 1 .. Len(kernel_ops) :
        kernel_ops[i] = SwitchOp => Held(kernel_ops, i - 1) = {}

\* A task of os5 with a child exited: its path borrowed its own cell, that
\* of INITPROC inside it and that of the child inside both, and ended
\* in the __switch of schedule.
C24_Witness ==
    /\ kernel = "os5"
    /\ panicked = NoPanic
    /\ last_call.id = SYSCALL_EXIT
    /\ kernel_ops # <<>>
    /\ kernel_ops[Len(kernel_ops)] = SwitchOp
    /\ \E i \in 1 .. Len(kernel_ops) :
          /\ kernel_ops[i].op = "borrow"
          /\ Cardinality(Held(kernel_ops, i)) = 3

\* A task of os4 was suspended by the timer and run_next_task switched.
SwitchOfOs4Seen ==
    /\ kernel = "os4"
    /\ TimerPath(kernel_ops)
    /\ kernel_ops[Len(kernel_ops)] = SwitchOp

(* ================= properties of the tasks of os3 and os4 ============= *)

\* A step of trap_handler that went through run_next_task: it ended in the
\* __switch of run_next_task or in its panic.
RunNextStep ==
    /\ mode = "kernel"
    /\ panicked = NoPanic
    /\ panicked' \notin KernelTrapPanics
    /\ \/ panicked' = "All applications completed!"
       \/ (kernel_ops' # <<>> /\ kernel_ops'[Len(kernel_ops')] = SwitchOp)

\* The tasks that are Ready when find_next_task runs in the step: those
\* that were, and the current one unless the step marks it Exited.
ReadyAtFind ==
    {t \in 1 .. Len(tasks) : tasks[t].task_status = "Ready"}
        \cup (IF tasks'[current_task].task_status = "Exited" THEN {} ELSE {current_task})

\* How many tasks after the current one the task t stands, the current
\* one last.
StepsAfterCurrent(t) ==
    IF t > current_task THEN t - current_task ELSE t + num_app(tasks) - current_task

\* C31: find_next_task of os3 and os4 returns the Ready task that comes
\* first after the current one in cyclic order, the current one itself
\* when it was suspended and no other task is Ready, and None exactly when
\* no task is Ready.
C31_FindNext ==
    [][RunNextStep =>
          IF ReadyAtFind = {}
          THEN panicked' = "All applications completed!"
          ELSE /\ panicked' = NoPanic
               /\ current_task' \in ReadyAtFind
               /\ \A t \in ReadyAtFind :
                     StepsAfterCurrent(current_task') <= StepsAfterCurrent(t)]_vars

\* The second task of os3 yielded after the others had exited and runs
\* again: the search went past the end of the applications, past the first
\* one and came back to it.
C31_Witness ==
    /\ kernel = "os3"
    /\ mode = "user"
    /\ current_task = 2
    /\ tasks[2].task_status = "Running"
    /\ \A t \in {1, 3} : tasks[t].task_status = "Exited"
    /\ tasks[Len(tasks)].task_status = "UnInit"
    /\ last_call.id = SYSCALL_YIELD
    /\ tasks[2].x10 = 0

\* The applications, and the end of the kernel.
Apps == 1 .. num_app(tasks)
AllExited == \A t \in Apps : tasks[t].task_status = "Exited"
Completed == panicked = "All applications completed!"

\* The current task is in trap_handler on the way to
\* exit_current_and_run_next and every other application is Exited.
LastExit ==
    /\ mode = "kernel"
    /\ panicked = NoPanic
    /\ \/ scause = "UserEnvCall" /\ uregs[current_task].x17 = SYSCALL_EXIT
       \/ scause \in KillingCauses(kernel)
    /\ \A t \in Apps \ {current_task} : tasks[t].task_status = "Exited"

\* C32: in os3 and os4 an Exited task stays Exited and no run_next_task
\* switches to a task that was or is Exited; a run_next_task that finds no
\* Ready task panics with "All applications completed!", the kernel ends
\* with this panic only with every application Exited, has ended with it
\* whenever every application is Exited, and ends with it once the last
\* application is on its way to exit.
C32_Exited ==
    /\ [][/\ \A t \in DOMAIN tasks :
               tasks[t].task_status = "Exited" => tasks'[t].task_status = "Exited"
          /\ RunNextStep /\ panicked' = NoPanic =>
                /\ tasks[current_task'].task_status # "Exited"
                /\ tasks'[current_task'].task_status = "Running"
          /\ RunNextStep /\ ReadyAtFind = {} => Completed'
          /\ Completed' => AllExited']_vars
    /\ [](AllExited => Completed)
    /\ (LastExit ~> Completed)

\* os3 ended with the panic after a yield of the task that exited last.
C32_Witness ==
    /\ kernel = "os3"
    /\ Completed
    /\ AllExited
    /\ current_task = 2
    /\ tasks[2].x10 = 0
    /\ last_call.id = SYSCALL_EXIT

\* The tasks with status Running.
RunningTasks == {t \in DOMAIN tasks : tasks[t].task_status = "Running"}

\* C33: in os3 and os4, from run_first_task on, the only task that can be
\* Running is tasks[current_task], and it is Running as long as the kernel
\* has not ended; current_task changes in run_next_task only, which leaves
\* the task it chose Running, and that task is an application (its index
\* is below num_app, it was not UnInit).
C33_OneRunning ==
    /\ [](/\ RunningTasks \subseteq {current_task}
          /\ panicked = NoPanic => RunningTasks = {current_task}
          /\ current_task \in Apps)
    /\ [][/\ current_task' # current_task => RunNextStep
          /\ RunNextStep /\ panicked' = NoPanic =>
                /\ current_task' \in Apps
                /\ tasks[current_task'].task_status \notin {"UnInit", "Exited"}
                /\ RunningTasks' = {current_task'}]_vars

\* The third application of os3 runs after a __switch from the second,
\* the other two are Ready and the entry behind them is UnInit.
C33_Witness ==
    /\ kernel = "os3"
    /\ mode = "user"
    /\ current_task = 3
    /\ RunningTasks = {3}
    /\ \A t \in {1, 2} : tasks[t].task_status = "Ready"
    /\ tasks[Len(tasks)].task_status = "UnInit"
    /\ kernel_ops # <<>>
    /\ kernel_ops[Len(kernel_ops)] = SwitchOp

(* ===================== properties of the tasks of os5 ================= *)

\* C34: no path of os5 (run_tasks with fetch, fork, spawn, suspend, exit)
\* borrows a cell whose RefMut is still alive, and no exit, that of
\* INITPROC included, ends in the panic of a second borrow.
C34_NoDoubleBorrow ==
    /\ \A i \in 1 .. Len(kernel_ops) :
          kernel_ops[i].op = "borrow" =>
              <<kernel_ops[i].cell, kernel_ops[i].task>> \notin Held(kernel_ops, i - 1)
    /\ panicked # "already borrowed"

\* The tasks of os5 with status Running.
RunningTCBs == {t \in live : tcb[t].task_status = "Running"}

\* C35: between the kernel operations of os5 every task in the ready queue
\* is Ready, the task in the current slot is Running and is the only one
\* that is, and no task is UnInit.
C35_StatusAndLocation ==
    panicked = NoPanic =>
        /\ \A i \in DOMAIN ready_queue : tcb[ready_queue[i]].task_status = "Ready"
        /\ current # None => tcb[current].task_status = "Running"
        /\ RunningTCBs \subseteq {current}
        /\ Cardinality(RunningTCBs) <= 1
        /\ \A t \in live : tcb[t].task_status # "UnInit"

\* A task runs, another waits in the ready queue and a third is a Zombie.
C35_Witness ==
    /\ kernel = "os5"
    /\ panicked = NoPanic
    /\ current # None
    /\ RunningTCBs = {current}
    /\ ready_queue # <<>>
    /\ \E t \in live : tcb[t].task_status = "Zombie"

\* C37: every task of os5 has 1 <= stride <= BIG_STRIDE / 2, whatever
\* tasks were created and whatever sys_set_priority was called with, and a
\* dispatch adds at least 1 and at most BIG_STRIDE / 2 to the pass of the
\* task it dispatches.
C37_StrideRange ==
    /\ [](\A t \in live : 1 <= tcb[t].stride /\ tcb[t].stride <= BIG_STRIDE \div 2)
    /\ [][current = None /\ current' # None =>
            LET added == (tcb'[current'].pass - tcb[current'].pass) % PassMod
            IN 1 <= added /\ added <= BIG_STRIDE \div 2]_vars

\* The pass of every task in the ready queue.
QueuedPasses == {tcb[ready_queue[i]].pass : i \in DOMAIN ready_queue}

\* C38: whenever fetch takes a task out of the ready queue of os5, the
\* largest and the smallest pass in the queue are at most BIG_STRIDE / 2
\* apart.
C38_PassSpread ==
    [][current = None /\ current' # None =>
          \A p \in QueuedPasses, q \in QueuedPasses : p - q <= BIG_STRIDE \div 2]_vars

\* The task in slot t waits in the ready queue.
InReadyQueue(t) == \E i \in DOMAIN ready_queue : ready_queue[i] = t

\* C36: with the idle loop going round and every running task preempted or
\* yielding in the end, every task of os5 that is in the ready queue is
\* dispatched in the end, whatever priorities are set and whenever tasks
\* fork.
C36_NoStarvation == \A t \in Slots : InReadyQueue(t) ~> (current = t)
====
